---- MODULE Spec2Model ----
(***************************************************************************)
(* chapp: the connection Hub (cmd/server/types/server_types.go), the       *)
(* connection handler (cmd/server/handlers/websocket_handlers.go) and the  *)
(* client-side message handler (cmd/client/messaging, cmd/client/client.go)*)
(* as one state machine.                                                   *)
(*                                                                         *)
(* Three specifications share the state:                                   *)
(*   SpecHub  the server with arbitrary clients (frames drawn from         *)
(*            HubFrames);                                                  *)
(*   SpecKx   one message handler per connection fed with the envelopes a  *)
(*            Hub can hand it (drawn from KxEnvelopes), with its timers;   *)
(*   SpecNet  the message handlers of client.go connected through the Hub. *)
(***************************************************************************)
EXTENDS Integers, Sequences, FiniteSets, TLC

\* ------------------------------------------------------------------ bounds

\* Capacities of the Hub's channels and of a client's Send channel.  The
\* program uses 100, 10, 10 and 256; the model keeps the code and scales the
\* capacities down so that "channel full" is reached by a handful of frames.
BroadcastCap == 2
RegisterCap == 2
SendCap == 2
\* Frames the arbitrary clients of SpecHub may send in total.
MaxFrames == 2
\* Envelopes the environment of SpecKx may hand to a message handler in total.
MaxDeliveries == 3
\* Frames written to a transport and not yet read by a message handler.
WireCap == 2

\* The timers of the message handler, in ticks of 100 ms: the delay before a
\* re-share, the cooldown after a share, the delay before request_keys.
ShareDelay == 1
Cooldown == 5
RequestDelay == 5

\* ------------------------------------------------------------ identities

\* Connections (one *Client / one MessageHandler each) and their identities.
Conns == {"c1", "c2"}

Username(c) == IF c = "c1" THEN "alice" ELSE "bob"

Users == {Username(c) : c \in Conns}

\* pkg/types/constants.go
MessageTypeSystem == "system"
MessageTypeEncrypted == "encrypted_message"
MessageTypePublicKeyShare == "public_key_share"
MessageTypeRequestKeys == "request_keys"
MessageTypeUserInfo == "user_info"
MessageTypeKeyExchange == "key_exchange"

\* The message types the application knows.
Vocabulary ==
    {MessageTypeSystem, MessageTypeEncrypted, MessageTypePublicKeyShare,
     MessageTypeRequestKeys, MessageTypeUserInfo, MessageTypeKeyExchange}
SystemSender == "System"

\* time.Now().Unix() as the Hub and the inbound loop see it: one abstract
\* instant, different from the zero value that means "not set".
NowUnix == 7

\* ------------------------------------------------------------- envelopes

\* types.Message
Message(t, content, sender, recipient, ts) ==
    [type |-> t, content |-> content, sender |-> sender,
     recipient |-> recipient, timestamp |-> ts]

ZeroMessage == Message("", "", "", "", 0)

\* json.Marshal of a Message: always valid JSON carrying the five fields.
Marshal(m) == [valid |-> TRUE, msg |-> m]

\* Bytes that json.Unmarshal rejects.
Garbage == [valid |-> FALSE, msg |-> ZeroMessage]

\* Mutant of UnmarshalOk: the error of json.Unmarshal is not looked at.
UnmarshalOkAlways(b) == TRUE

\* json.Unmarshal into a types.Message: err # nil iff the bytes are no JSON.
UnmarshalOk(b) == b.valid

Unmarshal(b) == IF b.valid THEN b.msg ELSE ZeroMessage

\* Mutant of JoinedMsg: the notice does not name the identity.
JoinedMsgAnonymous(c) ==
    Message(MessageTypeSystem, "User joined the chat", SystemSender, "", NowUnix)

JoinedMsg(c) ==
    Message(MessageTypeSystem, "User " \o Username(c) \o " joined the chat",
            SystemSender, "", NowUnix)

LeftMsg(c) ==
    Message(MessageTypeSystem, "User " \o Username(c) \o " left the chat",
            SystemSender, "", NowUnix)

UserInfoMsg(c) ==
    Message(MessageTypeUserInfo, Username(c), SystemSender, "", NowUnix)

\* ---------------------------------------------------------------- state

VARIABLES
    Clients,      \* Hub.Clients: the registry (a set of connections)
    Broadcast,    \* Hub.Broadcast: buffered channel of bytes
    Register,     \* Hub.Register: buffered channel of *Client
    Unregister,   \* Hub.Unregister: buffered channel of *Client
    Send,         \* Client.Send of every connection: buffered channel
    sendClosed,   \* whether close(client.Send) has run
    hubPc,        \* where Hub.Run stands: "select", "welcome", "leave"
    hubMsg,       \* the bytes Hub.Run is about to send on Broadcast
    srvPc,        \* ServeWs of every connection
    request,      \* the upgrade request of every connection: cookie, username
    readPc,       \* ReadPump of every connection
    readMsg,      \* the bytes ReadPump is about to send on Broadcast
    writePc,      \* WritePump of every connection
    cliClosed,    \* the remote end closed the transport
    srvClosed,    \* Conn.Close() ran on the server side
    c2s,          \* frames in flight from the client to the server
    s2c,          \* frames written by WritePump, not yet read by the client
    lastFan,      \* history: the last fan-out of Hub.Run
    nFan,         \* history: envelopes ever taken off Broadcast by Hub.Run
    envCount,     \* history: frames / envelopes the environment has supplied
    kxPc,         \* main() of client.go: "none" (the remote end is no message
                  \* handler of this model), "init", "run"
    otherClients, \* MessageHandler.otherClients: identity -> public key string
    processedMsgs,\* MessageHandler.processedMsgs: the msgIDs seen
    justSharedKey,\* MessageHandler.justSharedKey
    shareTimers,  \* pending "sleep 100 ms, SharePublicKey": ticks left -> count
    resetTimers,  \* pending "sleep 500 ms, justSharedKey = false"
    reqTimer,     \* pending "sleep 500 ms, RequestKeys": ticks left, -1 none
    sharesSent,   \* history: public_key_share frames written by the handler
    sinceShare,   \* history: ticks since the last share (Cooldown: none within)
    shareGap,     \* history: sinceShare as it was when the last share was sent
    reqsHandled,  \* history: request_keys envelopes of others HandleMessage handled
    lastHandle,   \* history: the last HandleMessage call and what it returned
    lastSend,     \* history: the last send call made on a handler without transport
    crypto,       \* a caller of package crypto: its arguments and results
    encHandled,   \* history: the encrypted_message frames HandleMessage was given
    race          \* the goroutines sharing one MessageHandler: where each is
                  \* in its accesses to the handler's fields

hubVars == <<Clients, Broadcast, Register, Unregister, Send, sendClosed,
             hubPc, hubMsg, lastFan, nFan>>

peerVars == <<srvPc, request, readPc, readMsg, writePc, cliClosed, srvClosed>>

wireVars == <<c2s, s2c, envCount>>

kxVars == <<kxPc, otherClients, processedMsgs, justSharedKey, shareTimers,
            resetTimers, reqTimer, sharesSent, sinceShare, shareGap, lastHandle,
            lastSend, crypto, encHandled, reqsHandled, race>>

vars == <<hubVars, peerVars, wireVars, kxVars>>

NoFan == [any |-> FALSE, bytes |-> Garbage, registry |-> {}, skipped |-> {},
          sent |-> {}, evicted |-> {}]

InitServer ==
    /\ Clients = {}
    /\ Broadcast = <<>>
    /\ Register = <<>>
    /\ Unregister = <<>>
    /\ Send = [c \in Conns |-> <<>>]
    /\ sendClosed = [c \in Conns |-> FALSE]
    /\ hubPc = "select"
    /\ hubMsg = Garbage
    /\ readPc = [c \in Conns |-> "off"]
    /\ readMsg = [c \in Conns |-> Garbage]
    /\ writePc = [c \in Conns |-> "off"]
    /\ cliClosed = [c \in Conns |-> FALSE]
    /\ srvClosed = [c \in Conns |-> FALSE]
    /\ c2s = [c \in Conns |-> <<>>]
    /\ s2c = [c \in Conns |-> <<>>]
    /\ lastFan = NoFan
    /\ nFan = 0
    /\ envCount = 0

\* ------------------------------------------------------------------ Hub.Run

\* case client := <-h.Register: the registry update, up to the blocking
\* send of the welcome bytes.
HubRunRegister ==
    /\ hubPc = "select"
    /\ Register # <<>>
    /\ LET client == Head(Register) IN
        /\ Clients' = Clients \cup {client}
        /\ hubMsg' = Marshal(JoinedMsg(client))
    /\ Register' = Tail(Register)
    /\ hubPc' = "welcome"
    /\ UNCHANGED <<Broadcast, Unregister, Send, sendClosed, lastFan, nFan>>
    /\ UNCHANGED <<peerVars, wireVars, kxVars>>

\* Mutant of Present: the presence check of line 106 is missing.
PresentAlways(client) == TRUE

\* if _, ok := h.Clients[client]; ok
Present(client) == client \in Clients

\* Mutant of Deleted: the entry stays in the registry.
DeletedNot(client) == Clients

\* delete(h.Clients, client)
Deleted(client) == Clients \ {client}

\* case client := <-h.Unregister: delete and close if present, up to the
\* blocking send of the leave bytes.  close() of a closed channel panics.
HubRunUnregister ==
    /\ hubPc = "select"
    /\ Unregister # <<>>
    /\ LET client == Head(Unregister) IN
        /\ Clients' = Deleted(client)
        /\ sendClosed' = IF Present(client)
                         THEN [sendClosed EXCEPT ![client] = TRUE]
                         ELSE sendClosed
        /\ hubMsg' = Marshal(LeftMsg(client))
        /\ hubPc' = IF Present(client) /\ sendClosed[client]
                    THEN "panic" ELSE "leave"
    /\ Unregister' = Tail(Unregister)
    /\ UNCHANGED <<Broadcast, Register, Send, lastFan, nFan>>
    /\ UNCHANGED <<peerVars, wireVars, kxVars>>

\* h.Broadcast <- welcomeBytes / h.Broadcast <- leaveBytes: a blocking send
\* on the buffered channel, possible only while the buffer has room.
HubSendPending ==
    /\ hubPc \in {"welcome", "leave"}
    /\ Len(Broadcast) < BroadcastCap
    /\ Broadcast' = Append(Broadcast, hubMsg)
    /\ hubPc' = "select"
    /\ hubMsg' = Garbage
    /\ UNCHANGED <<Clients, Register, Unregister, Send, sendClosed, lastFan, nFan>>
    /\ UNCHANGED <<peerVars, wireVars, kxVars>>

\* Mutant of SkipsClient: the check of line 134 is missing.
SkipsNobody(msg, client) == FALSE

\* The clients the fan-out loop passes over: the sender of an encrypted
\* message.
SkipsClient(msg, client) ==
    msg.type = MessageTypeEncrypted /\ Username(client) = msg.sender

\* Mutant of SendHasRoom: off by one, a full buffer still takes a message.
SendHasRoomOffByOne(client) == Len(Send[client]) <= SendCap

\* select { case client.Send <- message: ... default: ... }: the send
\* succeeds iff the buffer has room.
SendHasRoom(client) == Len(Send[client]) < SendCap

\* Mutant of Evict: the clients to remove are closed but stay registered.
EvictKeeps(clientsToRemove) == Clients

\* for _, client := range clientsToRemove { delete(h.Clients, client); ... }
Evict(clientsToRemove) == Clients \ clientsToRemove

\* case message := <-h.Broadcast: parse, then one pass over the registry.
\* The pass holds h.Mutex and touches each client's channel once, with a
\* non-blocking send; the sends to different clients are independent, so the
\* pass is one step whatever order the map is ranged in.  A send on a closed
\* channel, selected or not, panics; so does close() of a closed channel.
HubRunBroadcast ==
    /\ hubPc = "select"
    /\ Broadcast # <<>>
    /\ LET message == Head(Broadcast)
           msg == Unmarshal(message)
           targets == {c \in Clients : ~SkipsClient(msg, c)}
           clientsToRemove == {c \in targets : ~SendHasRoom(c)}
       IN
        /\ IF ~UnmarshalOk(message)
           THEN /\ UNCHANGED <<Clients, Send, sendClosed>>
                /\ lastFan' = NoFan
           ELSE /\ Send' = [c \in Conns |->
                               IF c \in targets /\ SendHasRoom(c)
                               THEN Append(Send[c], message)
                               ELSE Send[c]]
                /\ sendClosed' = [c \in Conns |->
                                     sendClosed[c] \/ c \in clientsToRemove]
                /\ Clients' = Evict(clientsToRemove)
                /\ lastFan' = [any |-> TRUE, bytes |-> message, registry |-> Clients,
                               skipped |-> Clients \ targets,
                               sent |-> targets \ clientsToRemove,
                               evicted |-> clientsToRemove]
        /\ hubPc' = IF UnmarshalOk(message) /\ \E c \in targets : sendClosed[c]
                    THEN "panic" ELSE hubPc
    /\ Broadcast' = Tail(Broadcast)
    /\ nFan' = nFan + 1
    /\ UNCHANGED <<Register, Unregister, hubMsg>>
    /\ UNCHANGED <<peerVars, wireVars, kxVars>>

HubStep == HubRunRegister \/ HubRunUnregister \/ HubSendPending \/ HubRunBroadcast

\* ------------------------------------------------------------------ ServeWs

\* types.Sessions: the session ids the server has issued and their users.
Sessions == [s_alice |-> "alice", s_bob |-> "bob", s_dave |-> "dave"]

\* auth.GetSession: the user of the session, "" for nil.
GetSession(sessionID) ==
    IF sessionID \in DOMAIN Sessions THEN Sessions[sessionID] ELSE ""

\* auth.GetUser(username) is not nil and IsRegistered: dave has a session
\* and no passkey, mallory is unknown.
IsRegistered(username) == username \in {"alice", "bob"}

\* The upgrade requests a client can make: a session cookie (none, one the
\* server issued, a forged one) and a username parameter.
Requests ==
    [cookie : {"", "s_alice", "s_dave", "forged"},
     username : {"", "alice", "bob", "mallory"}]

\* The requests of well-behaved clients: a web client sends the cookie of
\* its session, a CLI client its username.
RequestsOf(web) ==
    [c \in Conns |->
        IF c \in web THEN [cookie |-> "s_" \o Username(c), username |-> ""]
        ELSE [cookie |-> "", username |-> Username(c)]]

\* isWebClient: the request carries a non-empty session cookie.
IsWebClient(r) == r.cookie # ""

\* The username ServeWs gives the client it creates.
ResolvedUsername(r) ==
    IF IsWebClient(r) THEN GetSession(r.cookie) ELSE r.username

\* ServeWs up to the upgrade: Unauthorized for a cookie without session, for
\* no cookie and no username, and for a user that is not registered; then
\* the upgrade, which may fail; then the client is created.
ServeWsUpgrade(c, upgraded) ==
    /\ srvPc[c] = "request"
    /\ LET r == request[c]
           username == ResolvedUsername(r)
       IN srvPc' = [srvPc EXCEPT ![c] =
                      IF username = "" \/ ~IsRegistered(username) \/ ~upgraded
                      THEN "rejected" ELSE "new"]
    /\ UNCHANGED <<hubVars, request, readPc, readMsg, writePc, cliClosed, srvClosed,
                   wireVars, kxVars>>

\* ServeWs from hub.Register <- client on; the upgrade has succeeded.  A CLI
\* client (web = FALSE) gets no user_info and its pumps start at once.
ServeWsRegister(c, web) ==
    /\ srvPc[c] = "new"
    /\ Len(Register) < RegisterCap
    /\ Register' = Append(Register, c)
    /\ IF web
       THEN /\ srvPc' = [srvPc EXCEPT ![c] = "userinfo"]
            /\ UNCHANGED <<readPc, writePc>>
       ELSE /\ srvPc' = [srvPc EXCEPT ![c] = "running"]
            /\ readPc' = [readPc EXCEPT ![c] = "read"]
            /\ writePc' = [writePc EXCEPT ![c] = "run"]
    /\ UNCHANGED <<Clients, Broadcast, Unregister, Send, sendClosed, hubPc,
                   hubMsg, lastFan, nFan>>
    /\ UNCHANGED <<request, readMsg, cliClosed, srvClosed, wireVars, kxVars>>

\* client.Send <- userInfoBytes, then go WritePump / go ReadPump.  A send on
\* a closed channel panics and the handler goroutine ends before the pumps
\* are started; a send on a full channel blocks.
ServeWsUserInfo(c) ==
    /\ srvPc[c] = "userinfo"
    /\ IF sendClosed[c]
       THEN /\ srvPc' = [srvPc EXCEPT ![c] = "panic"]
            /\ UNCHANGED <<Send, readPc, writePc>>
       ELSE /\ SendHasRoom(c)
            /\ Send' = [Send EXCEPT ![c] = Append(@, Marshal(UserInfoMsg(c)))]
            /\ srvPc' = [srvPc EXCEPT ![c] = "running"]
            /\ readPc' = [readPc EXCEPT ![c] = "read"]
            /\ writePc' = [writePc EXCEPT ![c] = "run"]
    /\ UNCHANGED <<Clients, Broadcast, Register, Unregister, sendClosed, hubPc,
                   hubMsg, lastFan, nFan>>
    /\ UNCHANGED <<request, readMsg, cliClosed, srvClosed, wireVars, kxVars>>

\* ----------------------------------------------------------------- ReadPump

\* Mutant of FillIn: the sender and the timestamp of the frame are
\* overwritten whether set or not.
FillInOverwrite(c, msg) ==
    [msg EXCEPT !.sender = Username(c), !.timestamp = NowUnix]

\* What ReadPump makes of a parsed frame: sender and timestamp filled in
\* when absent, then json.Marshal (every case of the switch does the same).
FillIn(c, msg) ==
    [msg EXCEPT !.sender = IF msg.sender = "" THEN Username(c) ELSE msg.sender,
                !.timestamp = IF msg.timestamp = 0 THEN NowUnix ELSE msg.timestamp]

\* c.Conn.ReadMessage() returns a frame; a frame that does not parse is
\* skipped, any other is filled in and is about to be sent on Broadcast.
ReadPumpRead(c) ==
    /\ readPc[c] = "read"
    /\ ~srvClosed[c]
    /\ c2s[c] # <<>>
    /\ LET message == Head(c2s[c]) IN
        IF ~UnmarshalOk(message)
        THEN UNCHANGED <<readPc, readMsg>>
        ELSE /\ readMsg' = [readMsg EXCEPT ![c] = Marshal(FillIn(c, Unmarshal(message)))]
             /\ readPc' = [readPc EXCEPT ![c] = "send"]
    /\ c2s' = [c2s EXCEPT ![c] = Tail(@)]
    /\ UNCHANGED <<hubVars, srvPc, request, writePc, cliClosed, srvClosed, s2c, envCount, kxVars>>

\* hub.Broadcast <- messageBytes: blocks while the buffer is full.
ReadPumpSend(c) ==
    /\ readPc[c] = "send"
    /\ Len(Broadcast) < BroadcastCap
    /\ Broadcast' = Append(Broadcast, readMsg[c])
    /\ readPc' = [readPc EXCEPT ![c] = "read"]
    /\ readMsg' = [readMsg EXCEPT ![c] = Garbage]
    /\ UNCHANGED <<Clients, Register, Unregister, Send, sendClosed, hubPc,
                   hubMsg, lastFan, nFan>>
    /\ UNCHANGED <<srvPc, request, writePc, cliClosed, srvClosed, wireVars, kxVars>>

\* c.Conn.ReadMessage() returns an error: the transport was closed on this
\* side, or by the remote end with nothing left to read.  The loop breaks.
ReadPumpError(c) ==
    /\ readPc[c] = "read"
    /\ srvClosed[c] \/ (cliClosed[c] /\ c2s[c] = <<>>)
    /\ readPc' = [readPc EXCEPT ![c] = "unreg"]
    /\ UNCHANGED <<hubVars, srvPc, request, readMsg, writePc, cliClosed, srvClosed, wireVars, kxVars>>

\* The deferred hub.Unregister <- c (blocking while the buffer is full) and
\* c.Conn.Close().
ReadPumpUnregister(c) ==
    /\ readPc[c] = "unreg"
    /\ Len(Unregister) < RegisterCap
    /\ Unregister' = Append(Unregister, c)
    /\ srvClosed' = [srvClosed EXCEPT ![c] = TRUE]
    /\ readPc' = [readPc EXCEPT ![c] = "done"]
    /\ UNCHANGED <<Clients, Broadcast, Register, Send, sendClosed, hubPc,
                   hubMsg, lastFan, nFan>>
    /\ UNCHANGED <<srvPc, request, readMsg, writePc, cliClosed, wireVars, kxVars>>

\* ---------------------------------------------------------------- WritePump

\* Mutant of NextToWrite: the newest buffered message is taken.
NextToWriteNewest(c) == Send[c][Len(Send[c])]

\* for message := range c.Send: a receive takes the oldest buffered message.
NextToWrite(c) == Head(Send[c])

\* One turn of "for message := range c.Send": the next buffered message is
\* written to the transport; a write on a closed transport fails and the pump
\* returns, closing the transport.  s2c keeps what was written for a message
\* handler of this model; what an arbitrary client does with a frame is not
\* modelled.
WritePumpWrite(c) ==
    /\ writePc[c] = "run"
    /\ Send[c] # <<>>
    /\ Send' = [Send EXCEPT ![c] = Tail(@)]
    /\ IF srvClosed[c] \/ cliClosed[c]
       THEN /\ writePc' = [writePc EXCEPT ![c] = "done"]
            /\ srvClosed' = [srvClosed EXCEPT ![c] = TRUE]
            /\ UNCHANGED s2c
       ELSE /\ kxPc[c] # "none" => Len(s2c[c]) < WireCap
            /\ s2c' = IF kxPc[c] # "none"
                      THEN [s2c EXCEPT ![c] = Append(@, NextToWrite(c))]
                      ELSE s2c
            /\ UNCHANGED <<writePc, srvClosed>>
    /\ UNCHANGED <<Clients, Broadcast, Register, Unregister, sendClosed, hubPc,
                   hubMsg, lastFan, nFan>>
    /\ UNCHANGED <<srvPc, request, readPc, readMsg, cliClosed, c2s, envCount, kxVars>>

\* A loop that would end as soon as the channel is closed, discarding what
\* is still buffered.
RangeEndsAtClose(c) == sendClosed[c]

\* "for message := range c.Send" ends when the channel is closed and every
\* buffered value has been received.
RangeEnds(c) == Send[c] = <<>> /\ sendClosed[c]

\* The range loop ends: the channel is closed and drained.  The deferred
\* c.Conn.Close() runs.
WritePumpExit(c) ==
    /\ writePc[c] = "run"
    /\ RangeEnds(c)
    /\ writePc' = [writePc EXCEPT ![c] = "done"]
    /\ srvClosed' = [srvClosed EXCEPT ![c] = TRUE]
    /\ UNCHANGED <<hubVars, srvPc, request, readPc, readMsg, cliClosed, wireVars, kxVars>>

PeerStep(c) ==
    \/ ReadPumpRead(c) \/ ReadPumpSend(c) \/ ReadPumpError(c)
    \/ ReadPumpUnregister(c) \/ WritePumpWrite(c) \/ WritePumpExit(c)

\* ------------------------------------------------- MessageHandler (client)

\* Identities a message handler may hear of: the users of the model and one
\* more.
Idents == Users \cup {"carol"}

\* crypto.ExportPublicKey of the handler's own key: a non-empty base64 string.
PublicKeyOf(c) == "pk_" \o Username(c)

\* crypto.EncryptMessage for a recipient, as far as the handler can tell
\* ciphertexts apart: only the owner of the key decrypts it.
EncryptFor(u, text) == "E(" \o u \o "," \o text \o ")"

\* crypto.DecryptMessage with the handler's private key.
DecryptMessage(content, c) ==
    IF content = EncryptFor(Username(c), "hi")
    THEN [ok |-> TRUE, text |-> "hi"]
    ELSE [ok |-> FALSE, text |-> ""]

\* h.otherClients[name]: the zero value "" for a missing key.
Lookup(c, name) ==
    IF name \in DOMAIN otherClients[c] THEN otherClients[c][name] ELSE ""

\* alreadyHaveKey := h.otherClients[msg.Sender] != ""
AlreadyHaveKey(c, msg) == Lookup(c, msg.sender) # ""

\* Mutant of ShouldShareBack: a known key does not stop the share.
ShareBackIgnoringKnownKey(c, msg) == ~justSharedKey[c]

\* if !alreadyHaveKey && !h.justSharedKey
ShouldShareBack(c, msg) == ~AlreadyHaveKey(c, msg) /\ ~justSharedKey[c]

\* msgID := fmt.Sprintf("%s_%s_%d", msg.Sender, msg.Content, msg.Timestamp)
MsgID(msg) == msg.sender \o "_" \o msg.content \o "_" \o ToString(msg.timestamp)

\* Mutant of AlreadyProcessed: the dedup set is not consulted.
NeverProcessed(c, msg) == FALSE

\* if h.processedMsgs[msgID]
AlreadyProcessed(c, msg) == MsgID(msg) \in processedMsgs[c]

\* Mutant of ShareOnRequest: a request is answered only outside the cooldown.
ShareOnRequestOutsideCooldown(c, msg) ==
    msg.sender # Username(c) /\ ~justSharedKey[c]

\* case MessageTypeRequestKeys: if msg.Sender != h.username
ShareOnRequest(c, msg) == msg.sender # Username(c)

\* The strings HandleMessage returns for display; timeString is "[t]".
DisplaySystem(msg) == "[t] [SYSTEM] " \o msg.content

\* Mutant of DisplayFailed: a failed decryption surfaces nothing.
DisplaySilent(msg) == ""

DisplayFailed(msg) == "[t] [" \o msg.sender \o "] [DECRYPTION FAILED]"

DisplayPlain(msg, text) == "[t] [" \o msg.sender \o "] " \o text

\* Mutant of DisplayOther: a type the handler does not know surfaces nothing.
DisplayOtherDropped(msg) == ""

DisplayOther(msg) ==
    "[t] [" \o msg.sender \o "] " \o msg.content \o " (type: " \o msg.type \o ")"

\* HandleMessage as a function of the handler's state and the bytes: what it
\* returns (display, err), the key table and the dedup set it leaves, and
\* whether it starts a "sleep 100 ms, SharePublicKey" goroutine.
\* Mutant of NotForMe: the recipient is not looked at.
NotForMeNever(c, msg) == FALSE

\* if msg.Recipient != h.username
NotForMe(c, msg) == msg.recipient # Username(c)

\* Mutant of StoreKey: a key already stored is kept, the share is dropped.
StoreKeyOnce(c, msg) ==
    IF msg.sender \in DOMAIN otherClients[c] /\ otherClients[c][msg.sender] # ""
    THEN otherClients[c]
    ELSE [n \in DOMAIN otherClients[c] \cup {msg.sender} |->
             IF n = msg.sender THEN msg.content ELSE otherClients[c][n]]

\* h.otherClients[msg.Sender] = msg.Content
StoreKey(c, msg) ==
    [n \in DOMAIN otherClients[c] \cup {msg.sender} |->
        IF n = msg.sender THEN msg.content ELSE otherClients[c][n]]

\* Mutant of FromOther: the sender is not compared with the local identity.
FromAnybody(c, msg) == TRUE

\* if msg.Sender != h.username
FromOther(c, msg) == msg.sender # Username(c)

HandleResult(c, bytes) ==
    LET msg == Unmarshal(bytes)
        me == Username(c)
        same == [display |-> "", err |-> FALSE, keys |-> otherClients[c],
                 seen |-> processedMsgs[c], share |-> FALSE]
    IN
    IF ~UnmarshalOk(bytes) THEN [same EXCEPT !.err = TRUE]
    ELSE IF msg.type = MessageTypeSystem
        THEN [same EXCEPT !.display = DisplaySystem(msg)]
    ELSE IF msg.type = MessageTypePublicKeyShare
        THEN IF FromOther(c, msg)
             THEN [same EXCEPT !.keys = StoreKey(c, msg),
                               !.share = ShouldShareBack(c, msg)]
             ELSE same
    ELSE IF msg.type = MessageTypeEncrypted
        THEN IF FromOther(c, msg)
             THEN IF NotForMe(c, msg) THEN same
                  ELSE IF AlreadyProcessed(c, msg) THEN same
                  ELSE LET d == DecryptMessage(msg.content, c) IN
                       [same EXCEPT
                          !.seen = processedMsgs[c] \cup {MsgID(msg)},
                          !.display = IF d.ok THEN DisplayPlain(msg, d.text)
                                      ELSE DisplayFailed(msg)]
             ELSE same
    ELSE IF msg.type = MessageTypeRequestKeys
        THEN [same EXCEPT !.share = ShareOnRequest(c, msg)]
    ELSE [same EXCEPT !.display = DisplayOther(msg)]

NoHandle == [any |-> FALSE, conn |-> "", bytes |-> Garbage, display |-> "",
             err |-> FALSE, share |-> FALSE, hadKey |-> FALSE, cooldown |-> FALSE,
             again |-> FALSE]

\* A bag of timers (ticks left -> count) with one more timer of d ticks.
AddTimer(bag, d) == [bag EXCEPT ![d] = @ + 1]

\* A bag of timers one tick later; a timer with no tick left is due and
\* stays due until it fires.
TickBag(bag, max) ==
    [r \in 0..max |-> IF r = 0 THEN bag[0] + bag[1]
                      ELSE IF r = max THEN 0 ELSE bag[r + 1]]

NoTimers(max) == [r \in 0..max |-> 0]

Pending(bag, max) == \E r \in 0..max : bag[r] > 0

\* h.conn == nil: the handler was made by NewMessageHandler with no
\* connection.
ConnNil(c) == kxPc[c] = "noconn"

\* The client's end of the transport accepts a write.
TransportOpen(c) == ~srvClosed[c] /\ ~cliClosed[c]

\* The goroutine that serves the transport read loop (client.go): one frame
\* is read and handed to HandleMessage.
KxHandle(c) ==
    /\ kxPc[c] # "none"
    /\ s2c[c] # <<>>
    /\ LET bytes == Head(s2c[c])
           r == HandleResult(c, bytes)
       IN
        /\ otherClients' = [otherClients EXCEPT ![c] = r.keys]
        /\ processedMsgs' = [processedMsgs EXCEPT ![c] = r.seen]
        /\ shareTimers' = IF r.share
                          THEN [shareTimers EXCEPT ![c] = AddTimer(@, ShareDelay)]
                          ELSE shareTimers
        /\ lastHandle' = [any |-> TRUE, conn |-> c, bytes |-> bytes,
                          display |-> r.display, err |-> r.err, share |-> r.share,
                          hadKey |-> Lookup(c, Unmarshal(bytes).sender) # "",
                          cooldown |-> justSharedKey[c],
                          again |-> bytes \in encHandled[c]]
        /\ encHandled' = IF Unmarshal(bytes).type = MessageTypeEncrypted
                         THEN [encHandled EXCEPT ![c] = @ \cup {bytes}]
                         ELSE encHandled
        /\ reqsHandled' = IF /\ Unmarshal(bytes).type = MessageTypeRequestKeys
                             /\ Unmarshal(bytes).sender # Username(c)
                          THEN [reqsHandled EXCEPT ![c] = @ + 1]
                          ELSE reqsHandled
    /\ s2c' = [s2c EXCEPT ![c] = Tail(@)]
    /\ UNCHANGED <<kxPc, justSharedKey, resetTimers, reqTimer, sharesSent,
                   sinceShare, shareGap, lastSend, crypto, race>>
    /\ UNCHANGED <<hubVars, peerVars, c2s, envCount>>

\* SharePublicKey: the key is exported and written to the transport; when the
\* write succeeds the flag is set and a "sleep 500 ms, reset" goroutine is
\* started.  A failed write returns the error and changes nothing.
SharePublicKey(c) ==
    IF ~ConnNil(c) /\ TransportOpen(c)
    THEN /\ c2s' = IF srvPc[c] = "absent" THEN c2s
                   ELSE [c2s EXCEPT ![c] = Append(@,
                            Marshal(Message(MessageTypePublicKeyShare, PublicKeyOf(c),
                                            Username(c), "", NowUnix)))]
         /\ justSharedKey' = [justSharedKey EXCEPT ![c] = TRUE]
         /\ resetTimers' = [resetTimers EXCEPT ![c] = AddTimer(@, Cooldown)]
         /\ sharesSent' = [sharesSent EXCEPT ![c] = @ + 1]
         /\ shareGap' = [shareGap EXCEPT ![c] = sinceShare[c]]
         /\ sinceShare' = [sinceShare EXCEPT ![c] = 0]
    ELSE UNCHANGED <<c2s, justSharedKey, resetTimers, sharesSent, shareGap, sinceShare>>

\* main() of client.go from the dial on: the dial succeeds (with a server in
\* the model, its ServeWs handler has upgraded the connection), then
\* SharePublicKey, then the goroutine "sleep 500 ms, RequestKeys" is started.
MainStart(c) ==
    /\ kxPc[c] = "init"
    /\ SharePublicKey(c)
    /\ reqTimer' = [reqTimer EXCEPT ![c] = RequestDelay]
    /\ kxPc' = [kxPc EXCEPT ![c] = "run"]
    /\ srvPc' = IF srvPc[c] = "undialed" THEN [srvPc EXCEPT ![c] = "new"] ELSE srvPc
    /\ UNCHANGED <<otherClients, processedMsgs, shareTimers, lastHandle, lastSend, crypto,
                   encHandled, reqsHandled, race>>
    /\ UNCHANGED <<hubVars, request, readPc, readMsg, writePc, cliClosed,
                   srvClosed, s2c, envCount>>

\* A "sleep 100 ms, SharePublicKey" goroutine wakes up.
ShareTimerFire(c) ==
    /\ shareTimers[c][0] > 0
    /\ shareTimers' = [shareTimers EXCEPT ![c][0] = @ - 1]
    /\ SharePublicKey(c)
    /\ UNCHANGED <<kxPc, otherClients, processedMsgs, reqTimer, lastHandle, lastSend, crypto,
                   encHandled, reqsHandled, race>>
    /\ UNCHANGED <<hubVars, peerVars, s2c, envCount>>

\* A "sleep 500 ms, justSharedKey = false" goroutine wakes up.
ResetTimerFire(c) ==
    /\ resetTimers[c][0] > 0
    /\ resetTimers' = [resetTimers EXCEPT ![c][0] = @ - 1]
    /\ justSharedKey' = [justSharedKey EXCEPT ![c] = FALSE]
    /\ UNCHANGED <<kxPc, otherClients, processedMsgs, shareTimers, reqTimer,
                   sharesSent, sinceShare, shareGap, lastHandle, lastSend, crypto,
                   encHandled, reqsHandled, race>>
    /\ UNCHANGED <<hubVars, peerVars, wireVars>>

\* The "sleep 500 ms, RequestKeys" goroutine wakes up: a request_keys frame
\* is written to the transport (the error of a failed write is dropped).
RequestKeys(c) ==
    /\ reqTimer[c] = 0
    /\ reqTimer' = [reqTimer EXCEPT ![c] = -1]
    /\ c2s' = IF TransportOpen(c) /\ srvPc[c] # "absent"
              THEN [c2s EXCEPT ![c] = Append(@,
                       Marshal(Message(MessageTypeRequestKeys, "", Username(c), "",
                                       NowUnix)))]
              ELSE c2s
    /\ UNCHANGED <<kxPc, otherClients, processedMsgs, justSharedKey, shareTimers,
                   resetTimers, sharesSent, sinceShare, shareGap, lastHandle, lastSend, crypto,
                   encHandled, reqsHandled, race>>
    /\ UNCHANGED <<hubVars, peerVars, s2c, envCount>>

\* 100 ms pass: every sleeping goroutine is one tick closer to waking up.
\* Enabled while somebody sleeps or a cooldown window is running.
Tick ==
    /\ \E c \in Conns :
          \/ \E r \in 1..ShareDelay : shareTimers[c][r] > 0
          \/ \E r \in 1..Cooldown : resetTimers[c][r] > 0
          \/ reqTimer[c] > 0
          \/ sinceShare[c] < Cooldown
    /\ shareTimers' = [c \in Conns |-> TickBag(shareTimers[c], ShareDelay)]
    /\ resetTimers' = [c \in Conns |-> TickBag(resetTimers[c], Cooldown)]
    /\ reqTimer' = [c \in Conns |-> IF reqTimer[c] > 0 THEN reqTimer[c] - 1
                                    ELSE reqTimer[c]]
    /\ sinceShare' = [c \in Conns |-> IF sinceShare[c] < Cooldown
                                      THEN sinceShare[c] + 1 ELSE Cooldown]
    /\ UNCHANGED <<kxPc, otherClients, processedMsgs, justSharedKey, sharesSent,
                   shareGap, lastHandle, lastSend, crypto, encHandled,
                   reqsHandled, race>>
    /\ UNCHANGED <<hubVars, peerVars, wireVars>>

\* ------------------------------------------------------- package crypto

\* What rsa.EncryptOAEP takes with a 2048-bit key and SHA-256: at most
\* 256 - 2*32 - 2 bytes.
OAEPMax == 190

\* Mutant of maxChunkSize: a wider chunk, still within what OAEP takes.
maxChunkSizeWide == OAEPMax - 5

\* const maxChunkSize = 180
maxChunkSize == 180

\* A byte string of length L, its bytes a pattern of the seed that does not
\* repeat with the chunk size.
Plain(L, seed) == [i \in 1..L |-> (i * seed) % 7]

NoCt == [key |-> "", data |-> <<>>]

\* rsa.EncryptOAEP for the public key of u: a ciphertext only the private
\* key of u opens, an error for a message that is too long.
EncryptOAEP(u, bytes) ==
    IF Len(bytes) > OAEPMax THEN [ok |-> FALSE, ct |-> NoCt]
    ELSE [ok |-> TRUE, ct |-> [key |-> u, data |-> bytes]]

\* rsa.DecryptOAEP with the private key of u.
DecryptOAEP(u, ct) ==
    IF ct.key = u THEN [ok |-> TRUE, data |-> ct.data]
    ELSE [ok |-> FALSE, data |-> <<>>]

\* Encoded text is a sequence of pieces: the base64 text of one ciphertext
\* (characters of the base64 alphabet only) or the character "|".
Base64(ct) == [kind |-> "b64", ct |-> ct]

Bar == [kind |-> "bar", ct |-> NoCt]

\* base64.StdEncoding.DecodeString of a stretch of text without "|": the
\* ciphertext of one piece; the empty text decodes to no bytes.
DecodeString(text) ==
    IF text = <<>> THEN NoCt ELSE text[1].ct

\* splitMessageIntoChunks: the loop from byte i on.
RECURSIVE SplitFrom(_, _, _)
SplitFrom(message, i, chunkSize) ==
    IF i < Len(message)
    THEN LET end == IF i + chunkSize > Len(message) THEN Len(message)
                    ELSE i + chunkSize
         IN <<SubSeq(message, i + 1, end)>> \o SplitFrom(message, end, chunkSize)
    ELSE <<>>

splitMessageIntoChunks(message, chunkSize) == SplitFrom(message, 0, chunkSize)

\* strings.Join(encryptedChunks, "|")
RECURSIVE JoinBar(_)
JoinBar(texts) ==
    IF texts = <<>> THEN <<>>
    ELSE IF Len(texts) = 1 THEN texts[1]
    ELSE texts[1] \o <<Bar>> \o JoinBar(Tail(texts))

\* EncryptMessage: one ciphertext for a short message, one per chunk joined
\* by "|" for a long one.
EncryptMessage(message, u) ==
    IF Len(message) <= maxChunkSize
    THEN LET e == EncryptOAEP(u, message) IN
         IF e.ok THEN [ok |-> TRUE, out |-> <<Base64(e.ct)>>]
         ELSE [ok |-> FALSE, out |-> <<>>]
    ELSE LET chunks == splitMessageIntoChunks(message, maxChunkSize)
             enc == [k \in 1..Len(chunks) |-> EncryptOAEP(u, chunks[k])]
         IN IF \A k \in 1..Len(chunks) : enc[k].ok
            THEN [ok |-> TRUE,
                  out |-> JoinBar([k \in 1..Len(chunks) |-> <<Base64(enc[k].ct)>>])]
            ELSE [ok |-> FALSE, out |-> <<>>]

\* strings.Contains(encryptedMessage, "|")
ContainsBar(text) == \E i \in 1..Len(text) : text[i].kind = "bar"

\* strings.Split(encryptedMessage, "|")
RECURSIVE SplitBar(_, _)
SplitBar(text, cur) ==
    IF text = <<>> THEN <<cur>>
    ELSE IF Head(text).kind = "bar" THEN <<cur>> \o SplitBar(Tail(text), <<>>)
    ELSE SplitBar(Tail(text), Append(cur, Head(text)))

\* Mutant of JoinPlain: the chunks are joined last to first.
RECURSIVE JoinPlainReversed(_)
JoinPlainReversed(chunks) ==
    IF chunks = <<>> THEN <<>>
    ELSE JoinPlainReversed(Tail(chunks)) \o Head(chunks)

\* strings.Join(decryptedChunks, "")
RECURSIVE JoinPlain(_)
JoinPlain(chunks) ==
    IF chunks = <<>> THEN <<>>
    ELSE Head(chunks) \o JoinPlain(Tail(chunks))

\* crypto.DecryptMessage with the private key of u: chunk by chunk for a
\* text with "|", at once for one without; an error if a piece does not
\* decode or does not open.
CryptoDecryptMessage(text, u) ==
    IF ContainsBar(text)
    THEN LET chunks == SplitBar(text, <<>>)
             dec == [k \in 1..Len(chunks) |-> DecryptOAEP(u, DecodeString(chunks[k]))]
         IN IF \A k \in 1..Len(chunks) : Len(chunks[k]) <= 1 /\ dec[k].ok
            THEN [ok |-> TRUE, text |-> JoinPlain([k \in 1..Len(chunks) |-> dec[k].data])]
            ELSE [ok |-> FALSE, text |-> <<>>]
    ELSE LET d == DecryptOAEP(u, DecodeString(text)) IN
         IF Len(text) <= 1 /\ d.ok THEN [ok |-> TRUE, text |-> d.data]
         ELSE [ok |-> FALSE, text |-> <<>>]

\* The key strings a caller may hand to ImportPublicKey: text that is
\* base64 or not, and, if it is, what its bytes are: nothing (the empty
\* string), no DER at all, the SPKI or the PKCS1 encoding of the RSA public
\* key of a user, or the SPKI encoding of a key that is not RSA.
KeyStrings ==
    [base64 : {FALSE}, der : {"junk"}, owner : {""}]
    \cup [base64 : {TRUE}, der : {"", "junk"}, owner : {""}]
    \cup [base64 : {TRUE}, der : {"spki-rsa", "pkcs1-rsa", "spki-ec"}, owner : Users]

\* "invalid-base64-key" and "".
InvalidBase64Key == [base64 |-> FALSE, der |-> "junk", owner |-> ""]

EmptyKey == [base64 |-> TRUE, der |-> "", owner |-> ""]

\* x509.ParsePKIXPublicKey: a public key of some algorithm, or an error.
ParsePKIXPublicKey(k) ==
    IF k.der = "spki-rsa" THEN [ok |-> TRUE, alg |-> "rsa", key |-> k.owner]
    ELSE IF k.der = "spki-ec" THEN [ok |-> TRUE, alg |-> "ec", key |-> k.owner]
    ELSE [ok |-> FALSE, alg |-> "", key |-> ""]

\* Mutant of ParsePKCS1PublicKey: its error is lost, the nil key goes on.
ParsePKCS1PublicKeyLenient(k) ==
    IF k.der = "pkcs1-rsa" THEN [ok |-> TRUE, alg |-> "rsa", key |-> k.owner]
    ELSE [ok |-> TRUE, alg |-> "rsa", key |-> ""]

\* x509.ParsePKCS1PublicKey: an RSA public key, or an error.
ParsePKCS1PublicKey(k) ==
    IF k.der = "pkcs1-rsa" THEN [ok |-> TRUE, alg |-> "rsa", key |-> k.owner]
    ELSE [ok |-> FALSE, alg |-> "", key |-> ""]

\* ImportPublicKey: the key ("" for nil) and whether an error is returned.
ImportPublicKey(k) ==
    LET fail == [key |-> "", err |-> TRUE] IN
    IF ~k.base64 THEN fail
    ELSE LET first == ParsePKIXPublicKey(k)
             pubKey == IF first.ok THEN first ELSE ParsePKCS1PublicKey(k)
         IN IF ~pubKey.ok THEN fail
            ELSE IF pubKey.alg # "rsa" THEN fail
            ELSE [key |-> pubKey.key, err |-> FALSE]

NoCrypto == [pc |-> "idle", L |-> 0, message |-> <<>>, pub |-> "", priv |-> "",
             enc |-> [ok |-> FALSE, out |-> <<>>],
             dec |-> [ok |-> FALSE, text |-> <<>>],
             keyStr |-> EmptyKey, imp |-> [key |-> "", err |-> FALSE]]

\* The longest plaintext of the range of lengths tried, and one far longer.
MaxPlain == 400

PlainLengths == (0..MaxPlain) \cup {5000}

\* A caller encrypts a message for the public key of a user.
CryptoEncrypt(L, seed, u) ==
    /\ crypto.pc = "idle"
    /\ crypto' = [NoCrypto EXCEPT !.pc = "encrypted", !.L = L,
                                   !.message = Plain(L, seed), !.pub = u,
                                   !.enc = EncryptMessage(Plain(L, seed), u)]
    /\ UNCHANGED <<kxPc, otherClients, processedMsgs, justSharedKey, shareTimers,
                   resetTimers, reqTimer, sharesSent, sinceShare, shareGap,
                   lastHandle, lastSend, encHandled, reqsHandled, race>>
    /\ UNCHANGED <<hubVars, peerVars, wireVars>>

\* A caller imports a key string.
CryptoImport(k) ==
    /\ crypto.pc = "idle"
    /\ crypto' = [NoCrypto EXCEPT !.pc = "imported", !.keyStr = k,
                                   !.imp = ImportPublicKey(k)]
    /\ UNCHANGED <<kxPc, otherClients, processedMsgs, justSharedKey, shareTimers,
                   resetTimers, reqTimer, sharesSent, sinceShare, shareGap,
                   lastHandle, lastSend, encHandled, reqsHandled, race>>
    /\ UNCHANGED <<hubVars, peerVars, wireVars>>

\* The caller decrypts what it got with the private key of a user.
CryptoDecrypt(u) ==
    /\ crypto.pc = "encrypted"
    /\ crypto.enc.ok
    /\ crypto' = [crypto EXCEPT !.pc = "decrypted", !.priv = u,
                                 !.dec = CryptoDecryptMessage(crypto.enc.out, u)]
    /\ UNCHANGED <<kxPc, otherClients, processedMsgs, justSharedKey, shareTimers,
                   resetTimers, reqTimer, sharesSent, sinceShare, shareGap,
                   lastHandle, lastSend, encHandled, reqsHandled, race>>
    /\ UNCHANGED <<hubVars, peerVars, wireVars>>

\* The goroutines that share one MessageHandler.  "test": two of the
\* goroutines TestConcurrentMessageHandling starts, each calling
\* HandleMessage with an envelope of its own.  "client": the goroutines of
\* main() in client.go: the receive goroutine in HandleMessage, the
\* "sleep 500 ms, justSharedKey = false" goroutine SharePublicKey started,
\* the main goroutine in SendEncryptedMessage, and (started later, by
\* HandleMessage) the "sleep 100 ms, SharePublicKey" goroutine.
Goroutines(group) ==
    IF group = "test" THEN {"handle1", "handle2"}
    ELSE {"receive", "reset", "input", "reshare"}

\* No goroutine has been started on the handler.
NoRace == [conn |-> "", group |-> "", live |-> {},
           pos |-> [g \in Goroutines("test") \cup Goroutines("client") |-> 0],
           busy |-> [g \in Goroutines("test") \cup Goroutines("client") |-> FALSE],
           seen |-> [g \in Goroutines("test") \cup Goroutines("client") |-> FALSE],
           shown |-> [g \in Goroutines("test") \cup Goroutines("client") |-> ""],
           fatal |-> FALSE]

NoSend == [any |-> FALSE, conn |-> "", op |-> "", err |-> FALSE, panic |-> FALSE,
           keys |-> <<>>, out |-> <<>>]

\* NewMessageHandler for the connections in handlers, each at pc.
InitHandlersAt(handlers, pc) ==
    /\ kxPc = [c \in Conns |-> IF c \in handlers THEN pc ELSE "none"]
    /\ otherClients = [c \in Conns |-> <<>>]
    /\ processedMsgs = [c \in Conns |-> {}]
    /\ justSharedKey = [c \in Conns |-> FALSE]
    /\ shareTimers = [c \in Conns |-> NoTimers(ShareDelay)]
    /\ resetTimers = [c \in Conns |-> NoTimers(Cooldown)]
    /\ reqTimer = [c \in Conns |-> -1]
    /\ sharesSent = [c \in Conns |-> 0]
    /\ sinceShare = [c \in Conns |-> Cooldown]
    /\ shareGap = [c \in Conns |-> Cooldown]
    /\ lastHandle = NoHandle
    /\ lastSend = NoSend
    /\ crypto = NoCrypto
    /\ encHandled = [c \in Conns |-> {}]
    /\ reqsHandled = [c \in Conns |-> 0]
    /\ race = NoRace

InitHandlers(handlers) == InitHandlersAt(handlers, "init")

\* ------------------------------------------------- the clients of SpecHub

\* The frames an arbitrary client may put on its transport: any type of the
\* vocabulary or outside it, the sender left empty, its own or somebody
\* else's, and bytes that are no JSON.
HubFrames ==
    {Marshal(Message(MessageTypeEncrypted, "x", s, "", 0)) : s \in {"", "alice"}}
    \cup {Marshal(Message("chat", "x", "", "", 0)), Garbage}

\* A connected client sends a frame.
EnvSendFrame(c, f) ==
    /\ srvPc[c] # "new"
    /\ ~cliClosed[c]
    /\ envCount < MaxFrames
    /\ c2s[c] = <<>>
    /\ c2s' = [c2s EXCEPT ![c] = Append(@, f)]
    /\ envCount' = envCount + 1
    /\ UNCHANGED <<hubVars, peerVars, s2c, kxVars>>

\* The connections whose client may close its transport in SpecHub.
Closers == {"c1"}

\* The connections that are web clients (session cookie) in SpecHub; the
\* others are CLI clients (username parameter).
WebClients == {"c2"}

\* A connected client closes its transport.
EnvClose(c) ==
    /\ c \in Closers
    /\ srvPc[c] # "new"
    /\ ~cliClosed[c]
    /\ cliClosed' = [cliClosed EXCEPT ![c] = TRUE]
    /\ UNCHANGED <<hubVars, srvPc, request, readPc, readMsg, writePc, srvClosed, wireVars, kxVars>>

NextHub ==
    \/ HubRunRegister
    \/ HubRunUnregister
    \/ HubSendPending
    \/ HubRunBroadcast
    \/ \E c \in Conns : ServeWsRegister(c, c \in WebClients)
    \/ \E c \in Conns : ServeWsUserInfo(c)
    \/ \E c \in Conns : ReadPumpRead(c)
    \/ \E c \in Conns : ReadPumpSend(c)
    \/ \E c \in Conns : ReadPumpError(c)
    \/ \E c \in Conns : ReadPumpUnregister(c)
    \/ \E c \in Conns : WritePumpWrite(c)
    \/ \E c \in Conns : WritePumpExit(c)
    \/ \E c \in Conns, f \in HubFrames : EnvSendFrame(c, f)
    \/ \E c \in Conns : EnvClose(c)

InitHub ==
    /\ InitServer
    /\ srvPc = [c \in Conns |-> "new"]
    /\ request = RequestsOf(WebClients)
    /\ InitHandlers({})

SpecHub == InitHub /\ [][NextHub]_vars

\* ------------------------------------------- the environment of SpecRaw

\* The items a caller holding the Hub may send on its Broadcast channel.
RawItems == {Garbage, Marshal(Message(MessageTypeEncrypted, "z", "carol", "", 0))}

\* hub.broadcast <- msgBytes by a caller other than the pumps: a blocking
\* send of bytes the caller chose, parsable or not.
EnvBroadcastRaw(b) ==
    /\ envCount < MaxFrames
    /\ Len(Broadcast) < BroadcastCap
    /\ Broadcast' = Append(Broadcast, b)
    /\ envCount' = envCount + 1
    /\ UNCHANGED <<Clients, Register, Unregister, Send, sendClosed, hubPc,
                   hubMsg, lastFan, nFan>>
    /\ UNCHANGED <<peerVars, c2s, s2c, kxVars>>

NextRaw ==
    \/ NextHub
    \/ \E b \in RawItems : EnvBroadcastRaw(b)

\* The server with, besides its connections, a caller that sends on the
\* Hub's Broadcast channel directly.
SpecRaw == InitHub /\ [][NextRaw]_vars

\* -------------------------------------------- the environment of SpecKx

\* The connections that run a message handler in SpecKx.
KxConns == {"c1"}

\* The envelopes a Hub may hand to the message handler of c: key shares from
\* others (a well-formed key or an empty content) and its own share echoed,
\* key requests from another peer and its own, encrypted messages from
\* another peer addressed to it or to somebody else, decryptable or not (the
\* Hub never hands a peer an encrypted_message it is the sender of), a
\* system notice, a type outside the vocabulary, and bytes that are no JSON.
KxEnvelopes(c) ==
    LET me == Username(c)
        peer == CHOOSE u \in Users : u # me
    IN {Marshal(Message(MessageTypePublicKeyShare, "pk_" \o peer, peer, "", NowUnix)),
        Marshal(Message(MessageTypePublicKeyShare, "", peer, "", NowUnix)),
        Marshal(Message(MessageTypePublicKeyShare, "pk_carol", "carol", "", NowUnix)),
        Marshal(Message(MessageTypePublicKeyShare, PublicKeyOf(c), me, "", NowUnix)),
        Marshal(Message(MessageTypeRequestKeys, "", peer, "", NowUnix)),
        Marshal(Message(MessageTypeRequestKeys, "", me, "", NowUnix)),
        Marshal(Message(MessageTypeEncrypted, EncryptFor(me, "hi"), peer, me, NowUnix)),
        Marshal(Message(MessageTypeEncrypted, "junk", peer, me, NowUnix)),
        Marshal(Message(MessageTypeEncrypted, EncryptFor(peer, "hi"), "carol", peer, NowUnix)),
        Marshal(JoinedMsg(c)),
        Marshal(Message("chat", "x", peer, "", NowUnix)),
        Garbage}

\* The transport hands the message handler of c one more frame.
EnvDeliver(c, bytes) ==
    /\ kxPc[c] \in {"run", "noconn"}
    /\ envCount < MaxDeliveries
    /\ s2c[c] = <<>>
    /\ s2c' = [s2c EXCEPT ![c] = Append(@, bytes)]
    /\ envCount' = envCount + 1
    /\ UNCHANGED <<hubVars, peerVars, c2s, kxVars>>

NextKx ==
    \/ \E c \in Conns : MainStart(c)
    \/ \E c \in Conns : KxHandle(c)
    \/ \E c \in Conns : ShareTimerFire(c)
    \/ \E c \in Conns : ResetTimerFire(c)
    \/ \E c \in Conns : RequestKeys(c)
    \/ Tick
    \/ \E c \in Conns : \E bytes \in KxEnvelopes(c) : EnvDeliver(c, bytes)

InitKx ==
    /\ InitServer
    /\ srvPc = [c \in Conns |-> "absent"]
    /\ request = RequestsOf({})
    /\ InitHandlers(KxConns)

SpecKx == InitKx /\ [][NextKx]_vars

\* ---------------------------------------------------------- SpecNoConn

\* crypto.ImportPublicKey succeeds on what ExportPublicKey produced: the
\* 2048-bit keys of the clients ("pk_") and an RSA key of 512 bits ("sk_").
ImportPublicKeyOk(k) ==
    k \in {"pk_" \o u : u \in Idents} \cup {"sk_" \o u : u \in Idents}

\* crypto.EncryptMessage succeeds: rsa.EncryptOAEP with SHA-256 takes a
\* message only under a key of at least 66 bytes, so it fails under the
\* 512-bit key whatever the message.
EncryptMessageOk(k) == k \in {"pk_" \o u : u \in Idents}

\* The identity whose private key opens what is encrypted under k.
KeyOwner(k) == CHOOSE u \in Idents : k = "pk_" \o u

\* The recipients SendEncryptedMessage gets as far as writing to: every
\* entry of the key table but the handler's own whose key imports.
Recipients(c) ==
    {n \in DOMAIN otherClients[c] :
        /\ n # Username(c)
        /\ ImportPublicKeyOk(otherClients[c][n])
        /\ EncryptMessageOk(otherClients[c][n])}

\* A caller calls SharePublicKey on a handler that has no connection.
CallSharePublicKey(c) ==
    /\ ConnNil(c)
    /\ SharePublicKey(c)
    /\ lastSend' = [any |-> TRUE, conn |-> c, op |-> "SharePublicKey",
                    err |-> ConnNil(c) \/ ~TransportOpen(c), panic |-> FALSE,
                    keys |-> otherClients[c], out |-> <<>>]
    /\ UNCHANGED <<kxPc, otherClients, processedMsgs, shareTimers, reqTimer,
                   lastHandle, crypto, encHandled, reqsHandled, race>>
    /\ UNCHANGED <<hubVars, peerVars, s2c, envCount>>

\* A caller calls SendEncryptedMessage on a handler that has no connection:
\* nil at once with an empty key table; otherwise the loop skips its own
\* entry and every key that does not import, and returns the error of the
\* nil check at the first recipient it would write to.
CallSendEncryptedMessage(c) ==
    /\ ConnNil(c)
    /\ lastSend' = [any |-> TRUE, conn |-> c, op |-> "SendEncryptedMessage",
                    err |-> Recipients(c) # {}, panic |-> FALSE,
                    keys |-> otherClients[c], out |-> <<>>]
    /\ UNCHANGED <<kxPc, otherClients, processedMsgs, justSharedKey, shareTimers,
                   resetTimers, reqTimer, sharesSent, sinceShare, shareGap,
                   lastHandle, crypto, encHandled, reqsHandled, race>>
    /\ UNCHANGED <<hubVars, peerVars, wireVars>>

\* A caller calls RequestKeys on a handler that has no connection:
\* h.conn.WriteMessage on the nil *websocket.Conn dereferences it, the
\* process panics.
CallRequestKeys(c) ==
    /\ ConnNil(c)
    /\ kxPc' = [kxPc EXCEPT ![c] = "panic"]
    /\ lastSend' = [any |-> TRUE, conn |-> c, op |-> "RequestKeys",
                    err |-> FALSE, panic |-> TRUE,
                    keys |-> otherClients[c], out |-> <<>>]
    /\ UNCHANGED <<otherClients, processedMsgs, justSharedKey, shareTimers,
                   resetTimers, reqTimer, sharesSent, sinceShare, shareGap,
                   lastHandle, crypto, encHandled, reqsHandled, race>>
    /\ UNCHANGED <<hubVars, peerVars, wireVars>>

\* A handler without connection, its caller and the frames the caller hands
\* to HandleMessage; nothing runs once the process has panicked.
NextNoConn ==
    \/ \E c \in Conns : ConnNil(c) /\ KxHandle(c)
    \/ \E c \in Conns : ConnNil(c) /\ ShareTimerFire(c)
    \/ (\E c \in Conns : ConnNil(c)) /\ Tick
    \/ \E c \in Conns : \E bytes \in KxEnvelopes(c) : EnvDeliver(c, bytes)
    \/ \E c \in Conns : CallSharePublicKey(c)
    \/ \E c \in Conns : CallSendEncryptedMessage(c)
    \/ \E c \in Conns : CallRequestKeys(c)

InitNoConn ==
    /\ InitServer
    /\ srvPc = [c \in Conns |-> "absent"]
    /\ request = RequestsOf({})
    /\ InitHandlersAt(KxConns, "noconn")

SpecNoConn == InitNoConn /\ [][NextNoConn]_vars

\* ----------------------------------------------------------- SpecInbox

\* Envelopes a Hub may hand to the message handler of c, chosen for what the
\* handler makes of the sender: envelopes of every kind that name the local
\* identity as their sender (a frame's own non-empty sender is forwarded as
\* it is), and encrypted messages addressed to c whose senders, contents and
\* timestamps differ in one place or another.
InboxEnvelopes(c) ==
    LET me == Username(c) IN
    {Marshal(Message(MessageTypePublicKeyShare, PublicKeyOf(c), me, "", NowUnix)),
     Marshal(Message(MessageTypeRequestKeys, "", me, "", NowUnix)),
     Marshal(Message(MessageTypeEncrypted, EncryptFor(me, "hi"), me, me, NowUnix)),
     Marshal(Message("chat", "x", me, "", NowUnix)),
     Marshal(Message(MessageTypeEncrypted, "x_y", "bob", me, NowUnix)),
     Marshal(Message(MessageTypeEncrypted, "y", "bob_x", me, NowUnix)),
     Marshal(Message(MessageTypeEncrypted, "x_y", "bob", me, NowUnix + 1)),
     Marshal(Message(MessageTypeEncrypted, "y", "bob", me, NowUnix))}

NextInbox ==
    \/ \E c \in Conns : MainStart(c)
    \/ \E c \in Conns : KxHandle(c)
    \/ \E c \in Conns : ResetTimerFire(c)
    \/ \E c \in Conns : RequestKeys(c)
    \/ Tick
    \/ \E c \in Conns : \E bytes \in InboxEnvelopes(c) : EnvDeliver(c, bytes)

SpecInbox == InitKx /\ [][NextInbox]_vars

\* ------------------------------------------------------------ SpecSend

\* The orders in which "for ... range h.otherClients" may visit the entries
\* of the key table: Go leaves the order of a map iteration unspecified.
RangeOrders(c) ==
    LET D == DOMAIN otherClients[c] IN
    {f \in [1..Cardinality(D) -> D] :
        \A i, j \in 1..Cardinality(D) : f[i] = f[j] => i = j}

\* The envelope SendEncryptedMessage builds for the entry n of the key table:
\* the content encrypted under the stored key.
EncryptedFor(c, n, content) ==
    Message(MessageTypeEncrypted,
            EncryptFor(KeyOwner(otherClients[c][n]), content),
            Username(c), n, NowUnix)

RECURSIVE SendLoop(_, _, _, _)

\* Mutant of OnImportError: the failure ends the call.
OnImportErrorReturn(c, order, i, content) == [out |-> <<>>, err |-> TRUE]

\* "Failed to import public key ...; continue" and "Failed to encrypt
\* message ...; continue": the loop goes on with the next entry.
OnImportError(c, order, i, content) == SendLoop(c, order, i + 1, content)

\* The loop of SendEncryptedMessage from the i-th entry of the iteration on:
\* the envelopes written to the transport and whether the call returns an
\* error (a nil connection or a failed write ends the call).
SendLoop(c, order, i, content) ==
    IF i > Len(order) THEN [out |-> <<>>, err |-> FALSE]
    ELSE LET n == order[i]
             k == otherClients[c][n]
         IN  IF n = Username(c) THEN SendLoop(c, order, i + 1, content)
             ELSE IF ~ImportPublicKeyOk(k) \/ ~EncryptMessageOk(k)
                 THEN OnImportError(c, order, i, content)
             ELSE IF ConnNil(c) \/ ~TransportOpen(c)
                 THEN [out |-> <<>>, err |-> TRUE]
             ELSE LET rest == SendLoop(c, order, i + 1, content) IN
                  [out |-> <<Marshal(EncryptedFor(c, n, content))>> \o rest.out,
                   err |-> rest.err]

\* The input loop of client.go calls SendEncryptedMessage(content): nothing
\* is sent with an empty key table; otherwise one envelope is written per
\* entry the loop gets through.
SendEncryptedMessage(c, content) ==
    /\ kxPc[c] = "run"
    /\ \E order \in RangeOrders(c) :
         LET r == SendLoop(c, order, 1, content) IN
         /\ lastSend' = [any |-> TRUE, conn |-> c, op |-> "SendEncryptedMessage",
                         err |-> r.err, panic |-> FALSE,
                         keys |-> otherClients[c], out |-> r.out]
         /\ c2s' = IF srvPc[c] = "absent" THEN c2s
                   ELSE [c2s EXCEPT ![c] = @ \o r.out]
    /\ UNCHANGED <<kxPc, otherClients, processedMsgs, justSharedKey, shareTimers,
                   resetTimers, reqTimer, sharesSent, sinceShare, shareGap,
                   lastHandle, crypto, encHandled, reqsHandled, race>>
    /\ UNCHANGED <<hubVars, peerVars, s2c, envCount>>

\* The key shares a Hub may hand to the message handler of c: well-formed
\* keys, an empty content, bytes that are no key, a key too short to encrypt
\* under, and its own share echoed.
SendEnvelopes(c) ==
    LET me == Username(c)
        peer == CHOOSE u \in Users : u # me
    IN {Marshal(Message(MessageTypePublicKeyShare, "pk_" \o peer, peer, "", NowUnix)),
        Marshal(Message(MessageTypePublicKeyShare, "", peer, "", NowUnix)),
        Marshal(Message(MessageTypePublicKeyShare, "pk_carol", "carol", "", NowUnix)),
        Marshal(Message(MessageTypePublicKeyShare, "sk_carol", "carol", "", NowUnix)),
        Marshal(Message(MessageTypePublicKeyShare, "junk", "carol", "", NowUnix)),
        Marshal(Message(MessageTypePublicKeyShare, PublicKeyOf(c), me, "", NowUnix))}

\* A message handler, the key shares it is handed and its user typing
\* messages.
NextSend ==
    \/ \E c \in Conns : MainStart(c)
    \/ \E c \in Conns : KxHandle(c)
    \/ \E c \in Conns : ShareTimerFire(c)
    \/ \E c \in Conns : ResetTimerFire(c)
    \/ \E c \in Conns : RequestKeys(c)
    \/ Tick
    \/ \E c \in Conns : \E bytes \in SendEnvelopes(c) : EnvDeliver(c, bytes)
    \/ \E c \in Conns : SendEncryptedMessage(c, "hi")

SpecSend == InitKx /\ [][NextSend]_vars

\* The Hub's goroutine is scheduled fairly: whenever Hub.Run can take a step
\* it eventually takes one.  Nothing is assumed of the peers or the clients.

\* ------------------------------------------------------------- SpecNet

\* A closed system: every connection is a CLI client running client.go
\* against the Hub, each started at a time of its own; nothing else joins.
\* NetStep is a step of a goroutine of the server or of a started client.
NetStep ==
    \/ HubRunRegister
    \/ HubRunUnregister
    \/ HubSendPending
    \/ HubRunBroadcast
    \/ \E c \in Conns : ServeWsRegister(c, FALSE)
    \/ \E c \in Conns : ReadPumpRead(c)
    \/ \E c \in Conns : ReadPumpSend(c)
    \/ \E c \in Conns : ReadPumpError(c)
    \/ \E c \in Conns : ReadPumpUnregister(c)
    \/ \E c \in Conns : WritePumpWrite(c)
    \/ \E c \in Conns : WritePumpExit(c)
    \/ \E c \in Conns : KxHandle(c)
    \/ \E c \in Conns : ShareTimerFire(c)
    \/ \E c \in Conns : ResetTimerFire(c)
    \/ \E c \in Conns : RequestKeys(c)

\* The steps of the programs take no time on the scale of the timers (a tick
\* is 100 ms): time passes only when no goroutine can take a step.
NextNet ==
    \/ NetStep
    \/ \E c \in Conns : MainStart(c)
    \/ (~ENABLED NetStep) /\ Tick

InitNet ==
    /\ InitServer
    /\ srvPc = [c \in Conns |-> "undialed"]
    /\ request = RequestsOf({})
    /\ InitHandlers(Conns)

SpecNet == InitNet /\ [][NextNet]_vars

\* ---------------------------------------------------------- SpecCrypto

\* A caller of package crypto: one message of any length tried, encrypted
\* for one user and decrypted by one.
NextCrypto ==
    \/ \E L \in PlainLengths, seed \in 1..2, u \in Users : CryptoEncrypt(L, seed, u)
    \/ \E u \in Users : CryptoDecrypt(u)
    \/ \E k \in KeyStrings : CryptoImport(k)

InitCrypto ==
    /\ InitServer
    /\ srvPc = [c \in Conns |-> "absent"]
    /\ request = RequestsOf({})
    /\ InitHandlers({})

SpecCrypto == InitCrypto /\ [][NextCrypto]_vars

\* ------------------------------------------------------------ SpecAuth

\* ServeWs from the request to the Register event, for arbitrary requests.
NextAuth ==
    \/ \E c \in Conns, upgraded \in BOOLEAN : ServeWsUpgrade(c, upgraded)
    \/ \E c \in Conns : ServeWsRegister(c, IsWebClient(request[c]))

InitAuth ==
    /\ InitServer
    /\ srvPc = [c \in Conns |-> "request"]
    /\ request \in [Conns -> Requests]
    /\ InitHandlers({})

SpecAuth == InitAuth /\ [][NextAuth]_vars

\* ------------------------------------------------------------- SpecMix

\* The connections of SpecMix that are not client.go: a client of another
\* make, which sends frames of its own choice and reads nothing.
Foreign == {"c1"}

\* The frames the foreign client sends: one of a type outside the
\* vocabulary and a request for keys, sender and timestamp left out.
MixFrames ==
    {Marshal(Message("chat", "x", "", "", 0)),
     Marshal(Message(MessageTypeRequestKeys, "", "", "", 0))}

\* The server with one foreign client and one client.go; time as in SpecNet.
NextMix ==
    \/ NetStep
    \/ \E c \in Conns : MainStart(c)
    \/ \E c \in Foreign, f \in MixFrames : EnvSendFrame(c, f)
    \/ (~ENABLED NetStep) /\ Tick

InitMix ==
    /\ InitServer
    /\ srvPc = [c \in Conns |-> IF c \in Foreign THEN "new" ELSE "undialed"]
    /\ request = RequestsOf({})
    /\ InitHandlers(Conns \ Foreign)

SpecMix == InitMix /\ [][NextMix]_vars

\* ----------------------------------------- the environment of SpecFrames

\* Frames of every type of the vocabulary and of a type outside it, with the
\* sender, the recipient and the timestamp set or not, and a frame that does
\* not parse.
AnyFrames ==
    {Marshal(Message(MessageTypeSystem, "x", "", "", 0)),
     Marshal(Message(MessageTypeEncrypted, "y", "mallory", "bob", 3)),
     Marshal(Message(MessageTypePublicKeyShare, "k", "", "", 3)),
     Marshal(Message(MessageTypeRequestKeys, "", "mallory", "", 0)),
     Marshal(Message(MessageTypeUserInfo, "x", "", "bob", 0)),
     Marshal(Message(MessageTypeKeyExchange, "k", "alice", "", 3)),
     Marshal(Message("chat", "x", "", "", 0)),
     Garbage}

\* The server with one client that sends frames of its choosing and may
\* close, and one client that only listens.
NextFrames ==
    \/ HubRunRegister
    \/ HubRunUnregister
    \/ HubSendPending
    \/ HubRunBroadcast
    \/ \E c \in Conns : ServeWsRegister(c, c \in WebClients)
    \/ \E c \in Conns : ServeWsUserInfo(c)
    \/ \E c \in Conns : ReadPumpRead(c)
    \/ \E c \in Conns : ReadPumpSend(c)
    \/ \E c \in Conns : ReadPumpError(c)
    \/ \E c \in Conns : ReadPumpUnregister(c)
    \/ \E c \in Conns : WritePumpWrite(c)
    \/ \E c \in Conns : WritePumpExit(c)
    \/ \E c \in Foreign, f \in AnyFrames : EnvSendFrame(c, f)
    \/ \E c \in Foreign : EnvClose(c)

SpecFrames == InitHub /\ [][NextFrames]_vars

\* ------------------------------------------------------------ fairness

FairSpecHub == SpecHub /\ WF_vars(HubStep)

\* The goroutines of the server are all scheduled fairly: Hub.Run, the
\* ServeWs handler and the two pumps of every connection.  Nothing is
\* assumed of the clients.
ServeWsStep(c) == ServeWsRegister(c, c \in WebClients) \/ ServeWsUserInfo(c)

FairSpecServer ==
    /\ SpecHub
    /\ WF_vars(HubStep)
    /\ \A c \in Conns : WF_vars(PeerStep(c)) /\ WF_vars(ServeWsStep(c))

\* Every goroutine that can take a step eventually takes one, every client
\* is eventually started, and time does not stop.
FairSpecNet == SpecNet /\ WF_vars(NextNet)

\* ----------------------------------------------------------- claims, Hub

\* The envelope a fan-out step of Hub.Run handles, and the step itself (the
\* only step that takes bytes off Broadcast).
FanOutStep ==
    /\ hubPc = "select"
    /\ Broadcast # <<>>
    /\ UnmarshalOk(Head(Broadcast))
    /\ nFan' = nFan + 1

\* C1: an encrypted_message envelope with sender S is never enqueued to the
\* outbound queue of a registered peer whose identity is S: not by the last
\* fan-out, and no outbound queue ever holds such an envelope.
C1_NoEchoToSender ==
    /\ lastFan.any /\ Unmarshal(lastFan.bytes).type = MessageTypeEncrypted
          => \A c \in lastFan.sent : Username(c) # Unmarshal(lastFan.bytes).sender
    /\ \A c \in Conns : \A i \in 1..Len(Send[c]) :
          Unmarshal(Send[c][i]).type = MessageTypeEncrypted
             => Unmarshal(Send[c][i]).sender # Username(c)

\* C1 witness: an encrypted_message whose sender is a registered peer was
\* fanned out, that peer was passed over and another peer got the envelope.
C1_Witness ==
    /\ lastFan.any
    /\ Unmarshal(lastFan.bytes).type = MessageTypeEncrypted
    /\ \E c \in lastFan.registry : Username(c) = Unmarshal(lastFan.bytes).sender
    /\ lastFan.sent # {}

\* C2: in a fan-out step every targeted peer whose outbound queue is at
\* capacity is evicted in that step (queue closed, removed from the registry,
\* nothing enqueued), every targeted peer with room gets the envelope and
\* stays registered, the envelope leaves the broadcast path; and a closed
\* queue is never enqueued to again (no retry), its peer never registered
\* again.
C2_EvictOnFull ==
    [][/\ FanOutStep =>
            LET message == Head(Broadcast)
                msg == Unmarshal(message)
            IN /\ Broadcast' = Tail(Broadcast)
               /\ \A c \in Clients :
                     ~(msg.type = MessageTypeEncrypted /\ Username(c) = msg.sender)
                     => IF Len(Send[c]) >= SendCap
                        THEN /\ sendClosed'[c]
                             /\ c \notin Clients'
                             /\ Send'[c] = Send[c]
                        ELSE /\ Send'[c] = Append(Send[c], message)
                             /\ c \in Clients'
                             /\ ~sendClosed'[c]
       /\ \A c \in Conns :
            sendClosed[c] => /\ sendClosed'[c]
                             /\ c \notin Clients'
                             /\ Len(Send'[c]) <= Len(Send[c])]_vars

\* C2 witness: a fan-out evicted a peer whose queue was full while another
\* registered peer received the envelope.
C2_Witness ==
    /\ lastFan.any
    /\ lastFan.evicted # {}
    /\ lastFan.sent # {}
    /\ \A c \in lastFan.evicted : sendClosed[c] /\ Len(Send[c]) = SendCap

\* C3 (as claimed): whatever the peers do, the envelope at the head of the
\* broadcast path is eventually fanned out by the fairly scheduled Hub, hence
\* every envelope that reaches the path is.
C3_EveryEnvelopeFannedOut ==
    \A k \in 0..(MaxFrames + 2 * Cardinality(Conns)) :
        (nFan = k /\ Broadcast # <<>>) ~> (nFan > k)

\* C4 (as claimed): the Hub never waits on its own broadcast path.  Hub.Run
\* is the only receiver of Broadcast, so once it stands at
\* "h.Broadcast <- bytes" with the buffer full, it and every inbound loop that
\* sends on Broadcast wait forever.
C4_HubNeverBlocks ==
    ~(hubPc \in {"welcome", "leave"} /\ Len(Broadcast) = BroadcastCap)

\* ------------------------------------------------ claims, MessageHandler

\* The step in which the read loop of c hands one frame to HandleMessage (the
\* only step that takes a frame off the inbound transport of a client).
HandleStep(c) ==
    /\ kxPc[c] # "none"
    /\ s2c[c] # <<>>
    /\ s2c'[c] = Tail(s2c[c])

\* The last HandleMessage call was given an envelope of type t.
LastHandled(t) ==
    /\ lastHandle.any
    /\ UnmarshalOk(lastHandle.bytes)
    /\ Unmarshal(lastHandle.bytes).type = t

\* C5: when HandleMessage is given an encrypted_message addressed to the
\* local identity, it returns no error, and it returns a displayable string
\* exactly when the same envelope was not handed to it before: the first
\* delivery surfaces the message, every later one returns the empty string.
C5_DedupSurfacesOnce ==
    LastHandled(MessageTypeEncrypted)
        /\ Unmarshal(lastHandle.bytes).recipient = Username(lastHandle.conn)
    => /\ ~lastHandle.err
       /\ lastHandle.again <=> lastHandle.display = ""

\* C5 witness: an encrypted_message addressed to the local identity was
\* delivered a second time and nothing was surfaced.
C5_Witness ==
    /\ LastHandled(MessageTypeEncrypted)
    /\ Unmarshal(lastHandle.bytes).recipient = Username(lastHandle.conn)
    /\ lastHandle.again
    /\ lastHandle.display = ""
    /\ ~lastHandle.err

\* C6 (as claimed): after a public_key_share from X, not the local identity,
\* was handled, a re-share was scheduled exactly when X was not KEY_KNOWN
\* before and the cooldown was inactive, and X is KEY_KNOWN (the key table
\* holds a key for X, which is what the handler itself tests: != "").
C6_ShareBackAndKeyKnown ==
    LastHandled(MessageTypePublicKeyShare)
        /\ Unmarshal(lastHandle.bytes).sender # Username(lastHandle.conn)
    => /\ lastHandle.share <=> (~lastHandle.hadKey /\ ~lastHandle.cooldown)
       /\ Lookup(lastHandle.conn, Unmarshal(lastHandle.bytes).sender) # ""

\* C7: the step that handles a request_keys envelope from another identity
\* starts exactly one "sleep, SharePublicKey" goroutine with the fixed delay
\* to go, whatever the cooldown flag and the key table say, and sends nothing
\* itself; and a step in which such a goroutine wakes up sends exactly one
\* public_key_share.
C7_RequestAnsweredOnce ==
    [][\A c \in Conns :
         /\ (/\ HandleStep(c)
             /\ UnmarshalOk(Head(s2c[c]))
             /\ Unmarshal(Head(s2c[c])).type = MessageTypeRequestKeys
             /\ Unmarshal(Head(s2c[c])).sender # Username(c))
            => /\ shareTimers'[c] = AddTimer(shareTimers[c], ShareDelay)
               /\ sharesSent'[c] = sharesSent[c]
         /\ shareTimers'[c][0] < shareTimers[c][0]
            => /\ shareTimers'[c][0] = shareTimers[c][0] - 1
               /\ TransportOpen(c) => sharesSent'[c] = sharesSent[c] + 1]_vars

\* C7 witness: the local key was shared at start-up, a request_keys from a
\* peer whose key is known arrived inside the cooldown, and its one answer
\* has been sent.
C7_Witness ==
    /\ LastHandled(MessageTypeRequestKeys)
    /\ Unmarshal(lastHandle.bytes).sender # Username(lastHandle.conn)
    /\ lastHandle.cooldown
    /\ lastHandle.hadKey
    /\ lastHandle.share
    /\ sharesSent[lastHandle.conn] = 2
    /\ ~Pending(shareTimers[lastHandle.conn], ShareDelay)

\* C10 (as claimed): a public_key_share is never sent less than one cooldown
\* window after the previous one of the same coordinator.
C10_OneSharePerWindow ==
    \A c \in Conns : shareGap[c] >= Cooldown

\* --------------------------------------------------- claims, key exchange

\* The "sleep, SharePublicKey" goroutines of a bag that have not sent yet.
RECURSIVE TimerCount(_, _)
TimerCount(bag, r) == IF r = 0 THEN bag[0] ELSE bag[r] + TimerCount(bag, r - 1)

\* The identities other than its own that c holds a key-table entry for.
Learnt(c) == DOMAIN otherClients[c] \ {Username(c)}

NoPendingShare == \A c \in Conns : ~Pending(shareTimers[c], ShareDelay)

\* C8: in the closed system every coordinator handles at most one
\* request_keys per other coordinator, and the public_key_share envelopes it
\* has sent or is about to send number at most one for its start-up, one per
\* request_keys handled and one per remote identity learnt; so the shares
\* are finitely many, and eventually no share is pending, for good.
C8_HandshakeTerminates ==
    /\ [](\A c \in Conns :
            /\ reqsHandled[c] <= Cardinality(Conns) - 1
            /\ sharesSent[c] + TimerCount(shareTimers[c], ShareDelay)
                  <= 1 + reqsHandled[c] + Cardinality(Learnt(c)))
    /\ <>[]NoPendingShare

\* C8 witness: a coordinator has sent all the shares the bound allows (at
\* start-up, back to a newly learnt peer, in answer to a request_keys) and
\* no share is pending anywhere.
C8_Witness ==
    /\ NoPendingShare
    /\ \A c \in Conns : kxPc[c] = "run"
    /\ \E c \in Conns :
          /\ Cardinality(Learnt(c)) = 1
          /\ reqsHandled[c] = 1
          /\ sharesSent[c] = 3

\* Each key table holds the other peers' public keys.
Converged ==
    \A c \in Conns : \A d \in Conns \ {c} :
        Lookup(c, Username(d)) = PublicKeyOf(d)

\* A peer was evicted by the Hub.
Evicted == \E c \in Conns : sendClosed[c]

C11_PerPeerOrder ==
    [][\A c \in Conns :
         /\ Send'[c] # Send[c]
            => \/ /\ Len(Send'[c]) = Len(Send[c]) + 1
                  /\ SubSeq(Send'[c], 1, Len(Send[c])) = Send[c]
                  /\ s2c'[c] = s2c[c]
               \/ /\ Send[c] # <<>>
                  /\ Send'[c] = Tail(Send[c])
                  /\ \/ s2c'[c] = Append(s2c[c], Head(Send[c]))
                     \/ s2c'[c] = s2c[c] /\ srvClosed'[c]
         /\ s2c'[c] # s2c[c]
            => \/ s2c[c] # <<>> /\ s2c'[c] = Tail(s2c[c]) /\ Send'[c] = Send[c]
               \/ Send[c] # <<>> /\ Send'[c] = Tail(Send[c])]_vars

\* C11 witness: two different envelopes waited in a peer's queue, the older
\* one has been written and the newer one is the next to go.
C11_Witness ==
    \E c \in Conns :
        /\ Len(s2c[c]) >= 1
        /\ Len(Send[c]) >= 1
        /\ lastFan.any /\ c \in lastFan.sent
        /\ Send[c][Len(Send[c])] = lastFan.bytes
        /\ s2c[c][Len(s2c[c])] # Send[c][1]

\* The system envelope that announces the identity of p joined, as bytes.
JoinedBytes(p) ==
    [valid |-> TRUE,
     msg |-> Message(MessageTypeSystem,
                     "User " \o Username(p) \o " joined the chat",
                     SystemSender, "", NowUnix)]

\* C12: the step that takes p off Register adds p, absent before, to the
\* registry (one more entry) and holds the "joined" system envelope of p;
\* from there the Hub does nothing but place that envelope on the broadcast
\* path; and the fan-out of a system envelope passes over nobody: every
\* registered peer, p included while registered, is sent the envelope or, its
\* queue being full, evicted.
C12_RegisterAnnounces ==
    /\ [][/\ (hubPc = "select" /\ hubPc' = "welcome")
             => LET p == Head(Register) IN
                  /\ p \notin Clients
                  /\ Clients' = Clients \cup {p}
                  /\ Cardinality(Clients') = Cardinality(Clients) + 1
                  /\ hubMsg' = JoinedBytes(p)
                  /\ Broadcast' = Broadcast
          /\ hubPc = "welcome"
             => /\ Clients' = Clients
                /\ IF hubPc' = hubPc
                   THEN hubMsg' = hubMsg
                   ELSE /\ hubPc' = "select"
                        /\ Broadcast' = Append(Broadcast, hubMsg)]_vars
    /\ [](hubPc = "welcome" => \E p \in Clients : hubMsg = JoinedBytes(p))
    /\ [](lastFan.any /\ Unmarshal(lastFan.bytes).type = MessageTypeSystem
            => /\ lastFan.skipped = {}
               /\ lastFan.sent \cup lastFan.evicted = lastFan.registry)

\* C12 witness: with another peer registered, the "joined" envelope of p was
\* fanned out to both, p included.
C12_Witness ==
    \E p \in Conns :
        /\ lastFan.any
        /\ lastFan.bytes = JoinedBytes(p)
        /\ lastFan.registry = Conns
        /\ lastFan.sent = Conns
        /\ p \in Clients

\* The system envelope that announces the identity of p left, as bytes.
LeftBytes(p) ==
    [valid |-> TRUE,
     msg |-> Message(MessageTypeSystem,
                     "User " \o Username(p) \o " left the chat",
                     SystemSender, "", NowUnix)]

\* C13: the step that takes a registered peer p off Unregister removes p
\* from the registry, closes its outbound queue and holds the "left" system
\* envelope of p, which is the next thing the Hub places on the broadcast
\* path; a peer whose queue is closed is never in the registry again, and a
\* fan-out enqueues to no peer outside the registry: so the envelope reaches
\* only peers still registered and never p.
C13_UnregisterRemovesAndAnnounces ==
    /\ [][/\ (hubPc = "select" /\ hubPc' = "leave" /\ Head(Unregister) \in Clients)
             => LET p == Head(Unregister) IN
                  /\ Clients' = Clients \ {p}
                  /\ sendClosed'[p]
                  /\ \A c \in Conns \ {p} : sendClosed'[c] = sendClosed[c]
                  /\ Send' = Send
                  /\ hubMsg' = LeftBytes(p)
          /\ hubPc = "leave"
             => /\ Clients' = Clients
                /\ IF hubPc' = hubPc
                   THEN hubMsg' = hubMsg
                   ELSE /\ hubPc' = "select"
                        /\ Broadcast' = Append(Broadcast, hubMsg)
          /\ FanOutStep
             => \A c \in Conns \ Clients : Send'[c] = Send[c]]_vars
    /\ [](\A p \in Conns : sendClosed[p] => p \notin Clients)

\* C13 witness: p was registered, was unregistered (queue closed), and its
\* "left" envelope was fanned out to the peer that is still registered and
\* not to p.
C13_Witness ==
    \E p \in Conns :
        /\ lastFan.any
        /\ lastFan.bytes = LeftBytes(p)
        /\ sendClosed[p]
        /\ lastFan.evicted = {}
        /\ lastFan.registry = Conns \ {p}
        /\ lastFan.sent = Conns \ {p}

\* C14: the step that takes a peer that is not in the registry off Unregister
\* is a no-op: it changes neither the registry nor any outbound queue nor the
\* broadcast path, and it leaves the Hub with no left envelope to place (the
\* Hub is back at its select).
C14_UnregisterIdempotent ==
    [][(/\ hubPc = "select"
        /\ Unregister # <<>>
        /\ Unregister' = Tail(Unregister)
        /\ Head(Unregister) \notin Clients)
       => /\ Clients' = Clients
          /\ Send' = Send
          /\ sendClosed' = sendClosed
          /\ Broadcast' = Broadcast
          /\ hubPc' = "select"]_vars

\* C15: the registry counts the peers registered and not unregistered: the
\* step for a Register adds one to the count (the peers handed to Register
\* are distinct), the step for an Unregister of a present peer takes one
\* off, and the step for an Unregister of an absent peer leaves the count
\* and closes nothing; no queue of a peer in the registry is closed, so the
\* close of the Unregister case never hits a closed channel (no panic).
C15_RegistryCount ==
    /\ [][/\ (hubPc = "select" /\ hubPc' = "welcome")
             => Cardinality(Clients') = Cardinality(Clients) + 1
          /\ (hubPc = "select" /\ hubPc' = "leave")
             => IF Head(Unregister) \in Clients
                THEN Cardinality(Clients') = Cardinality(Clients) - 1
                ELSE /\ Cardinality(Clients') = Cardinality(Clients)
                     /\ sendClosed' = sendClosed
          /\ (Clients' # Clients /\ ~FanOutStep)
             => hubPc = "select" /\ hubPc' \in {"welcome", "leave"}]_vars
    /\ [](\A p \in Clients : ~sendClosed[p])

\* C15 witness: two peers were registered and one of them unregistered (its
\* left envelope has reached the other peer's queue): one is in the registry.
C15_Witness ==
    /\ Cardinality(Clients) = 1
    /\ \E p \in Conns \ Clients :
          /\ sendClosed[p]
          /\ \E q \in Clients, i \in 1..SendCap :
                i <= Len(Send[q]) /\ Send[q][i] = LeftBytes(p)
    /\ hubPc = "select"
    /\ Register = <<>>
    /\ Unregister = <<>>

\* C16: the Hub's step that takes an unparsable item off the broadcast path
\* changes no outbound queue and no registry entry and leaves the Hub at
\* its select, ready for the next event; the inbound loop's step that reads
\* an unparsable frame forwards nothing, stays in the loop and keeps the
\* connection; so no outbound queue ever holds an unparsable item.
C16_UnparsableDropped ==
    /\ [][/\ (/\ hubPc = "select"
              /\ Broadcast # <<>>
              /\ Head(Broadcast) = Garbage
              /\ nFan' = nFan + 1)
             => /\ Send' = Send
                /\ sendClosed' = sendClosed
                /\ Clients' = Clients
                /\ Broadcast' = Tail(Broadcast)
                /\ Register' = Register
                /\ Unregister' = Unregister
                /\ hubPc' = "select"
          /\ \A c \in Conns :
               (/\ c2s[c] # <<>>
                /\ Head(c2s[c]) = Garbage
                /\ c2s'[c] = Tail(c2s[c]))
               => /\ Broadcast' = Broadcast
                  /\ readPc[c] = "read"
                  /\ readPc'[c] = "read"
                  /\ readMsg'[c] = readMsg[c]
                  /\ srvClosed'[c] = srvClosed[c]
                  /\ Unregister' = Unregister]_vars
    /\ [](\A c \in Conns : \A i \in 1..Len(Send[c]) : Send[c][i] # Garbage)
    /\ [](\A c \in Conns : readPc[c] = "send" => readMsg[c] # Garbage)

\* C16 witness: both peers are registered and connected, the environment has
\* produced two items of which none was fanned out: the Hub has processed
\* three items of the broadcast path (the two joined notices and an
\* unparsable item, the last processed being dropped), and an unparsable
\* frame was read by an inbound loop that is again waiting for a frame.
C16_Witness ==
    /\ envCount = 2
    /\ nFan = 3
    /\ lastFan = NoFan
    /\ Clients = Conns
    /\ Broadcast = <<>>
    /\ hubPc = "select"
    /\ \A c \in Conns :
          /\ c2s[c] = <<>>
          /\ readPc[c] = "read"
          /\ ~srvClosed[c]
          /\ \A i \in 1..Len(s2c[c]) : Unmarshal(s2c[c][i]).type # MessageTypeEncrypted
          /\ \A i \in 1..Len(Send[c]) : Unmarshal(Send[c][i]).type # MessageTypeEncrypted

\* -------------------------------------- claims, MessageHandler (continued)

\* C17: the step in which HandleMessage is given an encrypted_message whose
\* recipient is not the local identity returns the empty string and no
\* error, and changes neither the dedup set nor the key table, starts no
\* share and writes nothing (a decryption attempt would mark the envelope
\* as processed and surface a text or a failure notice).
C17_OtherRecipientIgnored ==
    [][\A c \in Conns :
         (/\ HandleStep(c)
          /\ UnmarshalOk(Head(s2c[c]))
          /\ Unmarshal(Head(s2c[c])).type = MessageTypeEncrypted
          /\ Unmarshal(Head(s2c[c])).recipient # Username(c))
         => /\ lastHandle'.display = ""
            /\ ~lastHandle'.err
            /\ processedMsgs'[c] = processedMsgs[c]
            /\ otherClients'[c] = otherClients[c]
            /\ shareTimers'[c] = shareTimers[c]
            /\ c2s'[c] = c2s[c]]_vars

\* C17 witness: an encrypted_message for another identity was handled, for
\* the second time, while the key table holds a key; the dedup set is empty.
C17_Witness ==
    /\ LastHandled(MessageTypeEncrypted)
    /\ Unmarshal(lastHandle.bytes).recipient # Username(lastHandle.conn)
    /\ Unmarshal(lastHandle.bytes).sender # Username(lastHandle.conn)
    /\ lastHandle.again
    /\ lastHandle.display = ""
    /\ processedMsgs[lastHandle.conn] = {}
    /\ DOMAIN otherClients[lastHandle.conn] # {}

\* C18: the key table only grows: in every step, an identity that has a
\* non-empty stored key before the step has a non-empty stored key after it,
\* and no entry of the table disappears.
C18_KeyTableMonotone ==
    [][\A c \in Conns :
         /\ DOMAIN otherClients[c] \subseteq DOMAIN otherClients'[c]
         /\ \A n \in DOMAIN otherClients[c] :
              otherClients[c][n] # "" => otherClients'[c][n] # ""]_vars

\* C19: a send call on a handler without transport that gets as far as the
\* transport returns an error and does not crash, and no send call on such
\* a handler changes the cooldown flag or the key table.
C19_NoTransportIsAnError ==
    /\ [](\A c \in Conns : kxPc[c] # "panic")
    /\ [](lastSend.any
            => /\ ~lastSend.panic
               /\ lastSend.op \in {"SharePublicKey", "RequestKeys"} => lastSend.err)
    /\ [][lastSend' # lastSend
            => /\ (lastSend'.op = "SendEncryptedMessage" /\ ~lastSend'.err)
                    => Recipients(lastSend'.conn) = {}
               /\ justSharedKey' = justSharedKey
               /\ otherClients' = otherClients
               /\ c2s' = c2s]_vars

\* C20: the step in which HandleMessage is given an encrypted_message from
\* another identity, addressed to the local one, not handled before, whose
\* decryption fails, returns the non-empty failure notice and no error and
\* leaves the handler running; and an envelope handled afterwards is
\* processed as ever: a decryptable encrypted_message addressed to the
\* local identity, handled for the first time, surfaces its plaintext
\* whatever was handled before it.
C20_DecryptionFailureSurfaced ==
    /\ [][\A c \in Conns :
             (/\ HandleStep(c)
              /\ UnmarshalOk(Head(s2c[c]))
              /\ Unmarshal(Head(s2c[c])).type = MessageTypeEncrypted
              /\ Unmarshal(Head(s2c[c])).sender # Username(c)
              /\ Unmarshal(Head(s2c[c])).recipient = Username(c)
              /\ Head(s2c[c]) \notin encHandled[c]
              /\ ~DecryptMessage(Unmarshal(Head(s2c[c])).content, c).ok)
             => /\ lastHandle'.display # ""
                /\ lastHandle'.display =
                     "[t] [" \o Unmarshal(Head(s2c[c])).sender \o "] [DECRYPTION FAILED]"
                /\ ~lastHandle'.err
                /\ kxPc'[c] = kxPc[c]
                /\ otherClients'[c] = otherClients[c]]_vars
    /\ [](/\ LastHandled(MessageTypeEncrypted)
           /\ Unmarshal(lastHandle.bytes).sender # Username(lastHandle.conn)
           /\ Unmarshal(lastHandle.bytes).recipient = Username(lastHandle.conn)
           /\ ~lastHandle.again
           /\ DecryptMessage(Unmarshal(lastHandle.bytes).content, lastHandle.conn).ok
           => /\ ~lastHandle.err
              /\ lastHandle.display =
                   "[t] [" \o Unmarshal(lastHandle.bytes).sender \o "] hi")

\* C20 witness: an undecryptable encrypted_message was handled, and after it
\* a decryptable one, which surfaced its plaintext.
C20_Witness ==
    /\ LastHandled(MessageTypeEncrypted)
    /\ Unmarshal(lastHandle.bytes).recipient = Username(lastHandle.conn)
    /\ ~lastHandle.again
    /\ lastHandle.display = "[t] [" \o Unmarshal(lastHandle.bytes).sender \o "] hi"
    /\ \E b \in encHandled[lastHandle.conn] :
          /\ Unmarshal(b).recipient = Username(lastHandle.conn)
          /\ ~DecryptMessage(Unmarshal(b).content, lastHandle.conn).ok
          /\ MsgID(Unmarshal(b)) \in processedMsgs[lastHandle.conn]

\* ----------------------------------------------- claims, server and client

\* C21: an envelope of a type outside the vocabulary is forwarded by the
\* inbound loop with its type, is fanned out by the Hub to every registered
\* peer (nobody is passed over; a peer with a full queue is evicted as for
\* any type), and the handler that is given it returns the generic
\* non-empty display string, which names the type, and no error.
C21_UnknownTypeSurfaced ==
    /\ [][\A c \in Conns :
             (/\ readPc[c] = "read" /\ readPc'[c] = "send"
              /\ Unmarshal(Head(c2s[c])).type \notin Vocabulary)
             => Unmarshal(readMsg'[c]).type = Unmarshal(Head(c2s[c])).type]_vars
    /\ [](lastFan.any /\ Unmarshal(lastFan.bytes).type \notin Vocabulary
            => /\ lastFan.skipped = {}
               /\ lastFan.sent \cup lastFan.evicted = lastFan.registry)
    /\ [](lastHandle.any /\ UnmarshalOk(lastHandle.bytes)
              /\ Unmarshal(lastHandle.bytes).type \notin Vocabulary
            => /\ ~lastHandle.err
               /\ lastHandle.display # ""
               /\ lastHandle.display =
                    "[t] [" \o Unmarshal(lastHandle.bytes).sender \o "] "
                       \o Unmarshal(lastHandle.bytes).content
                       \o " (type: " \o Unmarshal(lastHandle.bytes).type \o ")")

\* C21 witness: the frame of type "chat" the foreign client sent went
\* through the Hub to the other peer, whose handler surfaced it with the
\* type and the sender the server filled in.
C21_Witness ==
    /\ lastHandle.any
    /\ lastHandle.conn \notin Foreign
    /\ Unmarshal(lastHandle.bytes).type = "chat"
    /\ lastHandle.display = "[t] [alice] x (type: chat)"
    /\ ~lastHandle.err

\* The client that made request r holds a session of the server that
\* belongs to user u.
HoldsSessionOf(r, u) == r.cookie \in DOMAIN Sessions /\ Sessions[r.cookie] = u

\* C22: a connection for which a client was created (ServeWs got past the
\* upgrade), and so every connection on Register, made its request with a
\* session of the user the client is named after, and that user is
\* registered; a rejected connection is never on Register.
C22_OnlyAuthenticatedPeers ==
    \A c \in Conns :
        /\ srvPc[c] \in {"new", "userinfo", "running"}
           => /\ HoldsSessionOf(request[c], ResolvedUsername(request[c]))
              /\ IsRegistered(ResolvedUsername(request[c]))
        /\ (\E i \in 1..Len(Register) : Register[i] = c)
           => srvPc[c] \in {"userinfo", "running"}

\* ------------------------------------------------- claims, package crypto

\* C23: for every plaintext tried, of a length at or below the chunk
\* threshold or above it, encryption for a user's public key succeeds and
\* decryption of its result with the same user's private key succeeds and
\* returns the plaintext.
C23_RoundTrip ==
    /\ crypto.pc \in {"encrypted", "decrypted"} => crypto.enc.ok
    /\ (crypto.pc = "decrypted" /\ crypto.priv = crypto.pub)
       => /\ crypto.dec.ok
          /\ crypto.dec.text = crypto.message

\* C23 witness: a plaintext of 5000 bytes went through encryption in chunks
\* and decryption with the matching key and came back as it was.
C23_Witness ==
    /\ crypto.pc = "decrypted"
    /\ crypto.priv = crypto.pub
    /\ crypto.L = 5000
    /\ Len(crypto.message) = 5000
    /\ Len(crypto.enc.out) > 1
    /\ crypto.dec.ok
    /\ crypto.dec.text = crypto.message

\* The plaintexts of the ciphertexts at the odd places of an encoded text,
\* one after the other, from place k on.
RECURSIVE ChunkPlainFrom(_, _)
ChunkPlainFrom(text, k) ==
    IF k > Len(text) THEN <<>>
    ELSE text[k].ct.data \o ChunkPlainFrom(text, k + 2)

\* C24: the output of EncryptMessage holds a "|" exactly when the plaintext
\* is longer than 180 bytes; for such a plaintext of length L it is
\* ceil(L/180) ciphertexts with a "|" between each two, each ciphertext
\* covering between 1 and 180 bytes, and the bytes covered, in order, are
\* the plaintext.
C24_ChunkingSelfDescribing ==
    crypto.pc \in {"encrypted", "decrypted"}
    => LET out == crypto.enc.out
           L == Len(crypto.message)
           n == (L + 179) \div 180
       IN /\ crypto.enc.ok
          /\ (\E i \in 1..Len(out) : out[i] = Bar) <=> L > 180
          /\ L > 180
             => /\ Len(out) = 2 * n - 1
                /\ \A i \in 1..Len(out) :
                      IF i % 2 = 0 THEN out[i] = Bar
                      ELSE /\ out[i].kind = "b64"
                           /\ Len(out[i].ct.data) \in 1..180
                /\ ChunkPlainFrom(out, 1) = crypto.message

\* C24 witness: a plaintext of 361 bytes was encrypted into three chunks.
C24_Witness ==
    /\ crypto.pc = "encrypted"
    /\ Len(crypto.message) = 361
    /\ Len(crypto.enc.out) = 5
    /\ crypto.enc.out[2] = Bar
    /\ Len(crypto.enc.out[5].ct.data) = 1

\* C25: ImportPublicKey returns an error for every string that is not the
\* encoding of an RSA public key (no base64, the empty string, bytes that
\* parse in neither format, a key of another algorithm), and it returns
\* either an error and no key or a key and no error.
C25_InvalidKeyImportFails ==
    crypto.pc = "imported"
    => /\ crypto.imp.err <=> crypto.imp.key = ""
       /\ (\/ ~crypto.keyStr.base64
           \/ crypto.keyStr.der \notin {"spki-rsa", "pkcs1-rsa"})
          => crypto.imp.err /\ crypto.imp.key = ""

\* C25 witness: the empty string was imported: an error and no key.
C25_Witness ==
    /\ crypto.pc = "imported"
    /\ crypto.keyStr = EmptyKey
    /\ crypto.imp.err
    /\ crypto.imp.key = ""

\* ----------------------------------------------- claims, Hub (liveness)

\* C26: when the read of a peer's transport has failed, the inbound loop
\* puts that peer on Unregister once and closes the transport (and never
\* puts it there again), and from then on the peer is eventually absent
\* from the registry with its outbound queue closed.
C26_ReadErrorUnregisters ==
    /\ [][\A c \in Conns :
             /\ (readPc[c] = "unreg" /\ readPc'[c] # "unreg")
                => /\ Unregister' = Append(Unregister, c)
                   /\ srvClosed'[c]
                   /\ readPc'[c] = "done"
             /\ (/\ Unregister' # Unregister
                 /\ Unregister = <<>> \/ Unregister' # Tail(Unregister))
                => \E d \in Conns : /\ readPc[d] = "unreg"
                                    /\ Unregister' = Append(Unregister, d)]_vars
    /\ \A c \in Conns :
          (readPc[c] = "unreg") ~> (c \notin Clients /\ sendClosed[c])

C28_CooldownCoversWindow ==
    \A c \in Conns :
        (sharesSent[c] > 0 /\ sinceShare[c] < Cooldown) => justSharedKey[c]

\* C29 (as claimed): every step that appends to a peer's outbound queue or
\* closes it is a step of Hub.Run.
C29_OnlyHubWritesQueues ==
    [][(\E c \in Conns : \/ Len(Send'[c]) > Len(Send[c])
                         \/ sendClosed'[c] # sendClosed[c])
       => HubStep]_vars

\* C30: the step in which the inbound loop of c takes a frame that parses
\* prepares one envelope whose sender is the frame's when set and the
\* identity of c otherwise, whose timestamp is the frame's when set and the
\* current time otherwise, and whose type, content and recipient are the
\* frame's; that envelope is what the loop then appends to the broadcast
\* path, once, before it reads again; and nothing but these appends and the
\* Hub's own notices ever reaches the broadcast path.
C30_ForwardedEnvelope ==
    [][/\ \A c \in Conns :
            /\ (/\ c2s[c] # <<>>
                /\ c2s'[c] = Tail(c2s[c])
                /\ UnmarshalOk(Head(c2s[c])))
               => LET f == Unmarshal(Head(c2s[c]))
                      m == Unmarshal(readMsg'[c])
                  IN  /\ readPc[c] = "read" /\ readPc'[c] = "send"
                      /\ UnmarshalOk(readMsg'[c])
                      /\ m.sender = IF f.sender # "" THEN f.sender
                                                     ELSE Username(c)
                      /\ m.timestamp = IF f.timestamp # 0 THEN f.timestamp
                                                          ELSE NowUnix
                      /\ m.type = f.type
                      /\ m.content = f.content
                      /\ m.recipient = f.recipient
                      /\ Broadcast' = Broadcast
            /\ (readPc[c] = "send" /\ readPc'[c] = "send")
               => readMsg'[c] = readMsg[c]
            /\ (readPc[c] = "send" /\ readPc'[c] # "send")
               => /\ Broadcast' = Append(Broadcast, readMsg[c])
                  /\ readPc'[c] = "read"
       /\ (Len(Broadcast') > Len(Broadcast) /\ hubPc' = hubPc)
          => \E c \in Conns : /\ readPc[c] = "send" /\ readPc'[c] = "read"
                              /\ Broadcast' = Append(Broadcast, readMsg[c])]_vars

\* C30 witness: a frame with sender, recipient and timestamp set went through
\* the Hub unchanged, and a frame of an unknown type with none of them set
\* is on the broadcast path with the connection's identity and the current
\* time filled in.
C30_Witness ==
    /\ lastFan.any
    /\ Unmarshal(lastFan.bytes)
         = Message(MessageTypeEncrypted, "y", "mallory", "bob", 3)
    /\ Broadcast # <<>>
    /\ Unmarshal(Head(Broadcast))
         = Message("chat", "x", Username("c1"), "", NowUnix)

\* C40: the step that handles a public_key_share from a sender other than
\* the local identity leaves the key table mapping that sender to the
\* content of the envelope, whatever was stored before and whether or not
\* the cooldown is active, and leaves every other entry as it was; only the
\* scheduling of a re-share depends on the key known before and the cooldown.
C40_LatestShareStored ==
    [][\A c \in Conns :
          (/\ HandleStep(c)
           /\ UnmarshalOk(Head(s2c[c]))
           /\ Unmarshal(Head(s2c[c])).type = MessageTypePublicKeyShare
           /\ Unmarshal(Head(s2c[c])).sender # Username(c))
          => LET msg == Unmarshal(Head(s2c[c])) IN
             /\ msg.sender \in DOMAIN otherClients'[c]
             /\ otherClients'[c][msg.sender] = msg.content
             /\ DOMAIN otherClients'[c] = DOMAIN otherClients[c] \cup {msg.sender}
             /\ \A n \in DOMAIN otherClients[c] \ {msg.sender} :
                   otherClients'[c][n] = otherClients[c][n]
             /\ lastHandle'.share
                  <=> (Lookup(c, msg.sender) = "" /\ ~justSharedKey[c])]_vars

\* C40 witness: a share from a peer whose key was already stored arrived
\* inside the cooldown and replaced the stored key with another content; no
\* re-share was scheduled.
C40_Witness ==
    /\ lastHandle.any
    /\ Unmarshal(lastHandle.bytes).type = MessageTypePublicKeyShare
    /\ Unmarshal(lastHandle.bytes).sender = "bob"
    /\ Unmarshal(lastHandle.bytes).content = ""
    /\ lastHandle.hadKey
    /\ lastHandle.cooldown
    /\ ~lastHandle.share
    /\ otherClients[lastHandle.conn]["bob"] = ""

\* C31 (as claimed): a call of SendEncryptedMessage that returns no error
\* has written exactly one encrypted_message per identity of the key table
\* other than the local one, with the local identity as its sender and that
\* identity as its recipient, and none addressed to the local identity; with
\* an empty key table it has written nothing.
C31_OneEnvelopePerKnownPeer ==
    [][(lastSend' # lastSend /\ lastSend'.op = "SendEncryptedMessage")
       => LET c == lastSend'.conn
              out == lastSend'.out
          IN  /\ ~lastSend'.err
              /\ \A n \in DOMAIN otherClients[c] \ {Username(c)} :
                    Cardinality({i \in 1..Len(out) :
                                    Unmarshal(out[i]).recipient = n}) = 1
              /\ \A i \in 1..Len(out) :
                    /\ Unmarshal(out[i]).type = MessageTypeEncrypted
                    /\ Unmarshal(out[i]).sender = Username(c)
                    /\ Unmarshal(out[i]).recipient
                          \in DOMAIN otherClients[c] \ {Username(c)}
              /\ otherClients[c] = <<>> => out = <<>>]_vars

\* C32: in a call of SendEncryptedMessage on an open transport, an entry of
\* the key table whose key does not import, or cannot be encrypted under,
\* gets no envelope, every other entry (the local identity apart) gets
\* exactly one, encrypted under its stored key, and the call returns no
\* error.
C32_BadKeySkipsOnlyThatRecipient ==
    [][(/\ lastSend' # lastSend
        /\ lastSend'.op = "SendEncryptedMessage"
        /\ TransportOpen(lastSend'.conn) /\ ~ConnNil(lastSend'.conn))
       => LET c == lastSend'.conn
              out == lastSend'.out
              good == {n \in DOMAIN otherClients[c] \ {Username(c)} :
                          otherClients[c][n] \in {"pk_" \o u : u \in Idents}}
          IN  /\ ~lastSend'.err
              /\ Len(out) = Cardinality(good)
              /\ \A n \in good :
                    \E i \in 1..Len(out) :
                       out[i] = Marshal(Message(MessageTypeEncrypted,
                                   EncryptFor(KeyOwner(otherClients[c][n]), "hi"),
                                   Username(c), n, NowUnix))]_vars

\* C32 witness: a call made with one stored key that does not import and
\* one that does wrote the one envelope for the latter and returned no
\* error.
C32_Witness ==
    /\ lastSend.any /\ lastSend.op = "SendEncryptedMessage"
    /\ ~lastSend.err
    /\ DOMAIN lastSend.keys = {"bob", "carol"}
    /\ lastSend.keys["carol"] = "junk"
    /\ lastSend.keys["bob"] = "pk_bob"
    /\ Len(lastSend.out) = 1
    /\ Unmarshal(lastSend.out[1]).recipient = "bob"

\* The (sender, content, timestamp) triple of an envelope.
Triple(bytes) ==
    <<Unmarshal(bytes).sender, Unmarshal(bytes).content, Unmarshal(bytes).timestamp>>

\* C37 (as claimed): an encrypted_message addressed to the local identity,
\* from another sender, whose (sender, content, timestamp) triple differs from
\* the triple of every encrypted_message handled before is surfaced: the
\* step that handles it returns a non-empty string.
C37_DistinctTriplesNotDuplicates ==
    [][\A c \in Conns :
          (/\ HandleStep(c)
           /\ UnmarshalOk(Head(s2c[c]))
           /\ Unmarshal(Head(s2c[c])).type = MessageTypeEncrypted
           /\ Unmarshal(Head(s2c[c])).sender # Username(c)
           /\ Unmarshal(Head(s2c[c])).recipient = Username(c)
           /\ \A b \in encHandled[c] : Triple(b) # Triple(Head(s2c[c])))
          => lastHandle'.display # ""]_vars

\* The types whose case in HandleMessage compares the sender with the local
\* identity.
SenderChecked == {MessageTypePublicKeyShare, MessageTypeRequestKeys, MessageTypeEncrypted}

C34_QueueClosedOnce ==
    /\ [](\A c \in Clients : ~sendClosed[c])
    /\ [](hubPc # "panic")
    /\ [][\A c \in Conns :
             /\ sendClosed[c] => sendClosed'[c]
             /\ (~sendClosed[c] /\ sendClosed'[c])
                => (c \in Clients /\ c \notin Clients')]_vars

\* C34 witness: a peer was evicted by the last fan-out, its inbound loop has
\* since ended and the Unregister it submitted has been processed; the
\* queue closed by the eviction is closed, the Hub runs.
C34_Witness ==
    \E c \in Conns :
        /\ c \in lastFan.evicted
        /\ readPc[c] = "done"
        /\ Unregister = <<>>
        /\ hubPc = "select"
        /\ sendClosed[c]
        /\ c \notin Clients

\* C35 (as claimed): no writer ever sends on a closed outbound queue: the
\* connection handler never stands at its user_info send with the queue
\* closed (the send would panic), and no step appends to a closed queue.
C35_NoSendAfterClose ==
    /\ [](\A c \in Conns : srvPc[c] = "userinfo" => ~sendClosed[c])
    /\ [](\A c \in Conns : srvPc[c] # "panic")
    /\ [][\A c \in Conns :
             Len(Send'[c]) > Len(Send[c]) => ~sendClosed[c]]_vars

\* A peer whose queue was closed by an eviction: the queue is closed although
\* the inbound loop of the peer has not submitted its Unregister.
EvictedPeer(c) == sendClosed[c] /\ readPc[c] # "done"

\* C36 (as claimed): once a peer is evicted, its outbound loop eventually
\* has terminated with the transport closed and its inbound loop eventually
\* has terminated, its Unregister submitted; and the step that processes the
\* Unregister of a peer that is not registered changes neither the registry
\* nor any queue's closed state.
C36_EvictionCleansUp ==
    /\ \A c \in Conns :
          EvictedPeer(c) ~> (/\ writePc[c] = "done" /\ srvClosed[c]
                             /\ readPc[c] = "done")
    /\ [][(/\ hubPc = "select" /\ hubPc' = "leave"
           /\ Head(Unregister) \notin Clients)
          => (Clients' = Clients /\ sendClosed' = sendClosed)]_vars


\* ------------------------------------------------------------ SpecRace

\* The accesses a goroutine makes to the fields of the handler, in program
\* order.  No field is guarded by a lock.  checked: the access is made by a
\* map routine of the runtime that looks for a writer at work (an index
\* expression, an assignment, a range; not len, not the flag).
Accesses(g) ==
    IF g \in Goroutines("test")
    THEN <<[field |-> "processedMsgs", write |-> FALSE, checked |-> TRUE],
           [field |-> "processedMsgs", write |-> TRUE, checked |-> TRUE]>>
    ELSE IF g = "receive"
    THEN <<[field |-> "otherClients", write |-> FALSE, checked |-> TRUE],
           [field |-> "otherClients", write |-> TRUE, checked |-> TRUE],
           [field |-> "justSharedKey", write |-> FALSE, checked |-> FALSE]>>
    ELSE IF g = "input"
    THEN <<[field |-> "otherClients", write |-> FALSE, checked |-> FALSE],
           [field |-> "otherClients", write |-> FALSE, checked |-> TRUE]>>
    ELSE <<[field |-> "justSharedKey", write |-> TRUE, checked |-> FALSE]>>

\* The envelope a goroutine hands to HandleMessage: encrypted messages of the
\* peer to the handler that differ in their timestamp, so in their msgID
\* (the test goroutines), and the key share of the peer (the receive
\* goroutine).
RaceEnvelope(c, g) ==
    LET me == Username(c)
        peer == CHOOSE u \in Users : u # me
    IN IF g = "handle1"
       THEN Message(MessageTypeEncrypted, EncryptFor(me, "hi"), peer, me, NowUnix)
       ELSE IF g = "handle2"
       THEN Message(MessageTypeEncrypted, EncryptFor(me, "hi"), peer, me, NowUnix + 1)
       ELSE Message(MessageTypePublicKeyShare, "pk_" \o peer, peer, "", NowUnix)

\* The access goroutine g is making, or makes next.
Access(g) == Accesses(g)[race.pos[g] + 1]

\* g has returned from its call.
Returned(g) == race.pos[g] = Len(Accesses(g))

\* Another goroutine is in the middle of an access to the field g is at, and
\* one of the two writes it.
Overlaps(g) ==
    \E h \in race.live \ {g} :
        /\ race.busy[h]
        /\ Access(h).field = Access(g).field
        /\ Access(h).write \/ Access(g).write

\* The overlap is one the runtime may detect: both accesses are checked.
Detectable(g) ==
    \E h \in race.live \ {g} :
        /\ race.busy[h]
        /\ Access(h).field = Access(g).field
        /\ Access(h).write \/ Access(g).write
        /\ Access(h).checked /\ Access(g).checked

\* The "go" statements: the test starts its goroutines on a handler it made;
\* main() has started the receive goroutine and reads the terminal, the
\* reset goroutine of its first SharePublicKey is sleeping.
GoSpawn(c, group) ==
    /\ race.live = {}
    /\ IF group = "test" THEN kxPc[c] = "init" ELSE kxPc[c] = "run"
    /\ race' = [race EXCEPT !.conn = c, !.group = group,
                            !.live = Goroutines(group) \ {"reshare"}]
    /\ UNCHANGED <<kxPc, otherClients, processedMsgs, justSharedKey, shareTimers,
                   resetTimers, reqTimer, sharesSent, sinceShare, shareGap,
                   lastHandle, lastSend, crypto, encHandled, reqsHandled>>
    /\ UNCHANGED <<hubVars, peerVars, wireVars>>

\* A goroutine starts its next access.  Nothing orders it after the accesses
\* of the others.  A map access that overlaps another one with a write
\* among the two is a data race: the runtime may detect it and end the
\* process ("fatal error: concurrent map writes", "concurrent map read and
\* map write", "concurrent map iteration and map write"), or not.
AccessBegin(g) ==
    /\ g \in race.live
    /\ ~race.fatal
    /\ ~race.busy[g]
    /\ ~Returned(g)
    /\ \E detected \in IF Detectable(g) THEN BOOLEAN ELSE {FALSE} :
          race' = [race EXCEPT !.busy[g] = TRUE, !.fatal = detected]
    /\ UNCHANGED <<kxPc, otherClients, processedMsgs, justSharedKey, shareTimers,
                   resetTimers, reqTimer, sharesSent, sinceShare, shareGap,
                   lastHandle, lastSend, crypto, encHandled, reqsHandled>>
    /\ UNCHANGED <<hubVars, peerVars, wireVars>>

\* A test goroutine in HandleMessage, case MessageTypeEncrypted: the lookup
\* of the msgID (a repeated one returns ""), then the insertion, the
\* decryption and the return of the string to display.
EndHandle(g) ==
    /\ g \in race.live \cap Goroutines("test")
    /\ ~race.fatal
    /\ race.busy[g]
    /\ LET c == race.conn
           msg == RaceEnvelope(c, g)
           d == DecryptMessage(msg.content, c)
       IN IF ~Access(g).write
          THEN /\ race' = [race EXCEPT !.busy[g] = FALSE,
                              !.seen[g] = AlreadyProcessed(c, msg),
                              !.pos[g] = IF AlreadyProcessed(c, msg)
                                         THEN Len(Accesses(g)) ELSE @ + 1]
               /\ UNCHANGED processedMsgs
          ELSE /\ race' = [race EXCEPT !.busy[g] = FALSE, !.pos[g] = @ + 1,
                              !.shown[g] = IF d.ok THEN DisplayPlain(msg, d.text)
                                           ELSE DisplayFailed(msg)]
               /\ processedMsgs' = [processedMsgs EXCEPT ![c] = @ \cup {MsgID(msg)}]
    /\ UNCHANGED <<kxPc, otherClients, justSharedKey, shareTimers,
                   resetTimers, reqTimer, sharesSent, sinceShare, shareGap,
                   lastHandle, lastSend, crypto, encHandled, reqsHandled>>
    /\ UNCHANGED <<hubVars, peerVars, wireVars>>

\* The receive goroutine in HandleMessage, case MessageTypePublicKeyShare:
\* alreadyHaveKey is read, the key is stored, the flag is read and the
\* "sleep 100 ms, SharePublicKey" goroutine is started.
EndReceive ==
    /\ "receive" \in race.live
    /\ ~race.fatal
    /\ race.busy["receive"]
    /\ LET c == race.conn
           msg == RaceEnvelope(c, "receive")
           i == race.pos["receive"] + 1
       IN /\ race' = [race EXCEPT
                        !.busy["receive"] = FALSE,
                        !.pos["receive"] = @ + 1,
                        !.seen["receive"] = IF i = 1 THEN AlreadyHaveKey(c, msg) ELSE @,
                        !.live = IF i = Len(Accesses("receive"))
                                    /\ ~race.seen["receive"] /\ ~justSharedKey[c]
                                 THEN @ \cup {"reshare"} ELSE @]
          /\ otherClients' = IF Access("receive").write
                             THEN [otherClients EXCEPT ![c] = StoreKey(c, msg)]
                             ELSE otherClients
    /\ UNCHANGED <<kxPc, processedMsgs, justSharedKey, shareTimers,
                   resetTimers, reqTimer, sharesSent, sinceShare, shareGap,
                   lastHandle, lastSend, crypto, encHandled, reqsHandled>>
    /\ UNCHANGED <<hubVars, peerVars, wireVars>>

\* The goroutine SharePublicKey started: h.justSharedKey = false.
EndReset ==
    /\ "reset" \in race.live
    /\ ~race.fatal
    /\ race.busy["reset"]
    /\ race' = [race EXCEPT !.busy["reset"] = FALSE, !.pos["reset"] = @ + 1]
    /\ justSharedKey' = [justSharedKey EXCEPT ![race.conn] = FALSE]
    /\ UNCHANGED <<kxPc, otherClients, processedMsgs, shareTimers,
                   resetTimers, reqTimer, sharesSent, sinceShare, shareGap,
                   lastHandle, lastSend, crypto, encHandled, reqsHandled>>
    /\ UNCHANGED <<hubVars, peerVars, wireVars>>

\* The goroutine HandleMessage started: SharePublicKey, which ends with
\* h.justSharedKey = true and one more reset goroutine.
EndReshare ==
    /\ "reshare" \in race.live
    /\ ~race.fatal
    /\ race.busy["reshare"]
    /\ race' = [race EXCEPT !.busy["reshare"] = FALSE, !.pos["reshare"] = @ + 1]
    /\ SharePublicKey(race.conn)
    /\ UNCHANGED <<kxPc, otherClients, processedMsgs, shareTimers, reqTimer,
                   lastHandle, lastSend, crypto, encHandled, reqsHandled>>
    /\ UNCHANGED <<hubVars, peerVars, s2c, envCount>>

\* The main goroutine in SendEncryptedMessage: len(h.otherClients) is read
\* (an empty table returns), then the table is ranged over and an envelope
\* is written per recipient.
EndInput ==
    /\ "input" \in race.live
    /\ ~race.fatal
    /\ race.busy["input"]
    /\ LET c == race.conn
           i == race.pos["input"] + 1
       IN IF i = 1
          THEN /\ race' = [race EXCEPT
                             !.busy["input"] = FALSE,
                             !.pos["input"] = IF DOMAIN otherClients[c] = {}
                                              THEN Len(Accesses("input")) ELSE @ + 1]
               /\ UNCHANGED <<lastSend, c2s>>
          ELSE /\ race' = [race EXCEPT !.busy["input"] = FALSE, !.pos["input"] = @ + 1]
               /\ \E order \in RangeOrders(c) :
                    LET r == SendLoop(c, order, 1, "hi") IN
                    /\ lastSend' = [any |-> TRUE, conn |-> c,
                                    op |-> "SendEncryptedMessage",
                                    err |-> r.err, panic |-> FALSE,
                                    keys |-> otherClients[c], out |-> r.out]
                    /\ c2s' = IF srvPc[c] = "absent" THEN c2s
                              ELSE [c2s EXCEPT ![c] = @ \o r.out]
    /\ UNCHANGED <<kxPc, otherClients, processedMsgs, justSharedKey, shareTimers,
                   resetTimers, reqTimer, sharesSent, sinceShare, shareGap,
                   lastHandle, crypto, encHandled, reqsHandled>>
    /\ UNCHANGED <<hubVars, peerVars, s2c, envCount>>

NextRace ==
    \/ \E c \in Conns : MainStart(c)
    \/ \E c \in KxConns : \E group \in {"test", "client"} : GoSpawn(c, group)
    \/ \E g \in Goroutines("test") \cup Goroutines("client") : AccessBegin(g)
    \/ \E g \in Goroutines("test") : EndHandle(g)
    \/ EndReceive
    \/ EndReset
    \/ EndReshare
    \/ EndInput

SpecRace == InitKx /\ [][NextRace]_vars


\* C33: concurrent calls of HandleMessage on one handler, for encrypted
\* envelopes addressed to it whose msgIDs differ, all return without error:
\* the process is not ended by the runtime, and once every call has
\* returned each envelope was surfaced (its plaintext returned for display)
\* and the dedup set holds every one of the msgIDs.
C33_ConcurrentHandleMessage ==
    race.group = "test" =>
        /\ ~race.fatal
        /\ (\A g \in Goroutines("test") : Returned(g)) =>
              \A g \in Goroutines("test") :
                  /\ race.shown[g] = DisplayPlain(RaceEnvelope(race.conn, g), "hi")
                  /\ MsgID(RaceEnvelope(race.conn, g)) \in processedMsgs[race.conn]

\* C39: no field of the handler (key table, dedup set, just-shared flag) is
\* accessed by two goroutines of the client at the same time with a write
\* among the two accesses.
C39_NoConcurrentFieldAccess ==
    race.group = "client" =>
        \A g \in race.live : race.busy[g] => ~Overlaps(g)

====
